---- MODULE Spec2Model ----
(***************************************************************************)
(* A model of resume-tailor (src/app.py): the LLM-backed parser and        *)
(* optimizers, the LaTeX and DOCX serializers, and the Streamlit script    *)
(* that drives them.                                                       *)
(*                                                                         *)
(* Representation.                                                         *)
(*  - A Python str is a sequence of tokens.  A token is a TLA+ string that *)
(*    stands for a piece of text: one character ("&", "{", one backslash), *)
(*    a maximal run of letters (a word: "textbf", "resumeItem"), a run of  *)
(*    blanks, or, in an original document, a whole marker                  *)
(*    ("\\section{Experience}").  Two str are equal iff their token        *)
(*    sequences are equal: resume text never holds a marker token, and     *)
(*    the sanitizer escapes the braces a marker would need.                *)
(*  - A Python dict is a function on the set of its keys; d.get(k, v) is   *)
(*    Get(d, k, v).                                                        *)
(*  - None is the record None; a value that may be None or a str is a      *)
(*    record (Str(s) or None), since a sequence and a record do not        *)
(*    compare.                                                             *)
(*  - A call that raises yields Raise(e).                                  *)
(***************************************************************************)
EXTENDS Integers, Sequences, FiniteSets, TLC

VARIABLES
    call,           \* harness: the function call under test and its arguments;
                    \* script: the calls the current run has made to the
                    \* outside (LLM, HTTP, PDF libraries), oldest first
    ret,            \* harness: its result, Pending before the call returns;
                    \* script: what the last function the run called returned
    reported,       \* the messages of st.error / st.warning of the current
                    \* script run (or call), oldest first
    flags,          \* api_key (truthy or not), the sidebar checkboxes and
                    \* DOCX_AVAILABLE, as the current script run reads them
    pc,             \* where the Streamlit script stands; "idle" between runs
    session_state,  \* st.session_state, a dict
    locals,         \* the script run's variables, a dict; gone when it ends
    downloads       \* the st.download_button's the current run has shown

vars == <<call, ret, reported, flags, pc, session_state, locals, downloads>>
script_vars == <<flags, pc, session_state, locals, downloads>>

None == [none |-> TRUE]
Pending == [pending |-> TRUE]
Str(s) == [str |-> s]
Raise(e) == [raise |-> e]
IsRaise(v) == DOMAIN v = {"raise"}
IsStr(v) == DOMAIN v = {"str"}

Get(d, k, default) == IF k \in DOMAIN d THEN d[k] ELSE default
\* d[k] = v
Put(d, k, v) == [x \in DOMAIN d \cup {k} |-> IF x = k THEN v ELSE d[x]]
EmptyDict == [x \in {} |-> None]

\* A message of st.error / st.warning: its fixed text and what it interpolates
Message(level, text, detail) == [level |-> level, text |-> text, detail |-> detail]

(***************************************************************************)
(* Tokens                                                                  *)
(***************************************************************************)
BS == "\\"
NL == "\n"
TAB == "\t"

\* Words (maximal letter runs) that resume text may hold.
PlainWords == {"a", "b", "Acme", "NYC", "Engineer", "Software"}
\* Command names: the last two are not on the allow-list of line 58.
CommandWords == {"textbf", "textit", "underline", "hfill",
                 "textasciicircum", "textasciitilde", "textbfx", "rm"}
Words == PlainWords \cup CommandWords
\* Words that start with an alternative of the negative lookahead of line 58.
AllowPrefixed == {"textbf", "textit", "underline", "hfill",
                  "textasciicircum", "textasciitilde", "textbfx"}
Blanks == {" ", "  ", "    ", "      ", NL, TAB}

(***************************************************************************)
(* Sequence helpers                                                        *)
(***************************************************************************)
\* The concatenation of a sequence of sequences (by halves: the texts are long)
RECURSIVE Flatten(_)
Flatten(ss) ==
    IF ss = <<>> THEN <<>>
    ELSE IF Len(ss) = 1 THEN ss[1]
    ELSE Flatten(SubSeq(ss, 1, Len(ss) \div 2))
         \o Flatten(SubSeq(ss, Len(ss) \div 2 + 1, Len(ss)))

\* "\n".join(lines)
JoinLines(ls) ==
    Flatten([i \in 1..Len(ls) |-> IF i = 1 THEN ls[i] ELSE <<NL>> \o ls[i]])

\* str.replace(ch, rep) for a one-token needle
ReplaceAll(text, ch, rep) ==
    Flatten([i \in 1..Len(text) |-> IF text[i] = ch THEN rep ELSE <<text[i]>>])

Max(S) == CHOOSE m \in S : \A n \in S : n <= m
Min(S) == CHOOSE m \in S : \A n \in S : m <= n

Contains(text, tok) == \E i \in 1..Len(text) : text[i] = tok
Count(text, tok) == Cardinality({i \in 1..Len(text) : text[i] = tok})

\* str.strip(): the text without the blank tokens at its two ends
Strip(text, blanks) ==
    LET solid == {i \in 1..Len(text) : text[i] \notin blanks}
    IN  IF solid = {} THEN <<>> ELSE SubSeq(text, Min(solid), Max(solid))

\* str.strip() is truthy: some token is not blank
StripTruthy(text) == \E i \in 1..Len(text) : text[i] \notin Blanks

(***************************************************************************)
(* escape_latex_characters, lines 53-75                                    *)
(***************************************************************************)
\* line 58: re.sub(r'\\(?!(textbf|...|hfill))[a-zA-Z]+', '', text).  A match
\* is a backslash and the word after it; a word is never a backslash, so
\* matches do not overlap and each is decided where it stands.
CommandAt(text, i) ==
    /\ text[i] = BS
    /\ i < Len(text)
    /\ text[i + 1] \in Words
    /\ text[i + 1] \notin AllowPrefixed

StripCommands(text) ==
    Flatten([i \in 1..Len(text) |->
               IF CommandAt(text, i) \/ (i > 1 /\ CommandAt(text, i - 1))
               THEN <<>> ELSE <<text[i]>>])

\* A table that escapes ^ and ~ before the braces
latex_chars_BracesLast == <<
    <<"&", <<BS, "&">> >>,
    <<"%", <<BS, "%">> >>,
    <<"$", <<BS, "$">> >>,
    <<"#", <<BS, "#">> >>,
    <<"_", <<BS, "_">> >>,
    <<"^", <<BS, "textasciicircum", "{", "}">> >>,
    <<"~", <<BS, "textasciitilde", "{", "}">> >>,
    <<"{", <<BS, "{">> >>,
    <<"}", <<BS, "}">> >> >>

\* lines 60-70, in the dict's insertion order
latex_chars == <<
    <<"&", <<BS, "&">> >>,
    <<"%", <<BS, "%">> >>,
    <<"$", <<BS, "$">> >>,
    <<"#", <<BS, "#">> >>,
    <<"_", <<BS, "_">> >>,
    <<"{", <<BS, "{">> >>,
    <<"}", <<BS, "}">> >>,
    <<"^", <<BS, "textasciicircum", "{", "}">> >>,
    <<"~", <<BS, "textasciitilde", "{", "}">> >> >>

\* lines 72-73: for char, escaped in latex_chars.items(): text = text.replace(...)
RECURSIVE ReplaceChain(_, _)
ReplaceChain(text, pairs) ==
    IF pairs = <<>> THEN text
    ELSE ReplaceChain(ReplaceAll(text, Head(pairs)[1], Head(pairs)[2]), Tail(pairs))

escape_latex_characters(text) ==
    IF text = <<>> THEN text                                   \* lines 55-56
    ELSE ReplaceChain(StripCommands(text), latex_chars)

\* The function without the guard of lines 55-56: re.sub raises on None
EscapeArgument_Unguarded(text) ==
    IF text = None THEN Raise("TypeError")
    ELSE Str(escape_latex_characters(text.str))

\* The function on an argument that is None or a str.  Line 55: "not text"
\* holds for None and for the empty string, and the argument is returned.
EscapeArgument(text) ==
    IF text = None \/ text = Str(<<>>) THEN text
    ELSE Str(escape_latex_characters(text.str))

(***************************************************************************)
(* The structured-resume model, lines 88-103                               *)
(***************************************************************************)
SectionNames == {"contact", "summary", "experience", "skills", "education",
                 "projects", "certifications"}

\* ResumeSection(title, lines=[], subsections=[]), lines 89-93
ResumeSection(title, lines, subsections) ==
    [title |-> title, lines |-> lines, subsections |-> subsections]

\* StructuredResume(): every field None, lines 96-103
EmptyResume == [n \in SectionNames |-> None]

\* Python truthiness of `resume.X and resume.X.subsections` / `.lines`
HasSubsections(resume, name) ==
    resume[name] # None /\ resume[name].subsections # <<>>
HasLines(resume, name) ==
    resume[name] # None /\ resume[name].lines # <<>>

\* [b for b in item.get("bullets", []) if b.strip()]
NonEmptyBullets(item) == SelectSeq(Get(item, "bullets", <<>>), StripTruthy)

(***************************************************************************)
(* preserve_original_latex_structure, lines 989-1047                       *)
(***************************************************************************)
\* A bullet list whose bullets were sanitized before and are sanitized again
BulletLines_EscapedTwice(item) ==
    LET bullets == NonEmptyBullets(item)
    IN  IF bullets = <<>> THEN <<>>
        ELSE << <<"    ", BS, BS, "resumeItemListStart">> >>
             \o [i \in 1..Len(bullets) |->
                    <<"      ", BS, BS, "resumeItem", "{">>
                    \o escape_latex_characters(escape_latex_characters(bullets[i]))
                    \o <<"}">>]
             \o << <<"    ", BS, BS, "resumeItemListEnd">> >>

\* The bullet list of one item, lines 1020-1025 and 1036-1041.  In the
\* source "\\\\resumeItem" is a non-raw literal: two backslashes.
BulletLines(item) ==
    LET bullets == NonEmptyBullets(item)
    IN  IF bullets = <<>> THEN <<>>
        ELSE << <<"    ", BS, BS, "resumeItemListStart">> >>
             \o [i \in 1..Len(bullets) |->
                    <<"      ", BS, BS, "resumeItem", "{">>
                    \o escape_latex_characters(bullets[i]) \o <<"}">>]
             \o << <<"    ", BS, BS, "resumeItemListEnd">> >>

\* lines 1015-1019: heading, date, organization, location
ExperienceItemLines(item) ==
    LET heading == escape_latex_characters(Get(item, "heading", <<>>))
        organization == escape_latex_characters(Get(item, "organization", <<>>))
        location == escape_latex_characters(Get(item, "location", <<>>))
        date == escape_latex_characters(Get(item, "date", <<>>))
    IN  << <<"    ", BS, BS, "resumeSubheading", "{">> \o heading
           \o <<"}", "{">> \o date \o <<"}", "{">> \o organization
           \o <<"}", "{">> \o location \o <<"}">> >>
        \o BulletLines(item)

\* lines 1033-1035
ProjectItemLines(item) ==
    LET heading == escape_latex_characters(Get(item, "heading", <<>>))
        date == escape_latex_characters(Get(item, "date", <<>>))
    IN  << <<"    ", BS, BS, "resumeProjectHeading", "{", BS, BS, "textbf", "{">>
           \o heading \o <<"}", "}", "{">> \o date \o <<"}">> >>
        \o BulletLines(item)

\* lines 1013-1027: "\n".join(content_lines) for Experience
ExperienceBody(section) ==
    JoinLines(<< <<"  ", BS, BS, "resumeSubHeadingListStart">> >>
              \o Flatten([i \in 1..Len(section.subsections) |->
                            ExperienceItemLines(section.subsections[i])])
              \o << <<"  ", BS, BS, "resumeSubHeadingListEnd">> >>)

\* lines 1031-1043: "\n".join(content_lines) for Projects
ProjectsBody(section) ==
    JoinLines(<< <<"  ", BS, BS, "resumeSubHeadingListStart">> >>
              \o Flatten([i \in 1..Len(section.subsections) |->
                            ProjectItemLines(section.subsections[i])])
              \o << <<"  ", BS, BS, "resumeSubHeadingListEnd">> >>)

(***************************************************************************)
(* Markers of an original document.  The pattern of line 1000 is compiled  *)
(* with re.IGNORECASE, so a marker token in another case matches too;      *)
(* str.replace of line 1009 is case-sensitive.                             *)
(***************************************************************************)
SectionMarker(title) ==
    CASE title = "Experience" -> "\\section{Experience}"
      [] title = "Projects" -> "\\section{Projects}"
      [] title = "Skills" -> "\\section{Skills}"
EndDocument == "\\end{document}"

\* Tokens that r"\\section\{<title>\}" matches under re.IGNORECASE
MarkersOf(title) ==
    CASE title = "Experience" -> {"\\section{Experience}", "\\SECTION{EXPERIENCE}"}
      [] title = "Projects" -> {"\\section{Projects}"}
      [] title = "Skills" -> {"\\section{Skills}"}

\* Tokens at which the lookahead (?=\\section|\\end\{document\}) succeeds
BoundaryTokens ==
    MarkersOf("Experience") \cup MarkersOf("Projects") \cup MarkersOf("Skills")
    \cup {EndDocument}

\* The tokens an original document is made of
DocTokens == BoundaryTokens \cup {"x"}

(***************************************************************************)
(* re's expansion of a replacement template (pattern.sub, line 1005).      *)
(* A backslash in the template starts an escape: "\\" is one backslash,    *)
(* "\t" a tab, a backslash before another ASCII letter is the error        *)
(* "bad escape", and a backslash before a character that is neither a      *)
(* letter nor a digit stays as it is.  Resume text of this model puts no   *)
(* digit after a backslash.                                                *)
(***************************************************************************)
\* What is left of a word after its first letter
RestOfWord(w) ==
    CASE w = "textbf" -> "extbf"
      [] w = "textit" -> "extit"
      [] w = "textbfx" -> "extbfx"
      [] w = "textasciicircum" -> "extasciicircum"
      [] w = "textasciitilde" -> "extasciitilde"

\* Words whose first letter is t: "\t" is an escape of re
TabWords == {"textbf", "textit", "textbfx", "textasciicircum", "textasciitilde"}
\* Words whose first letter is no escape of re: "bad escape"
BadEscapeWords == {"underline", "hfill", "Acme", "NYC", "Engineer", "Software"}

\* The template is read left to right and an escape takes two tokens, so in
\* a run of backslashes the first, third, ... start an escape.
RECURSIVE BackslashesBefore(_, _)
BackslashesBefore(t, i) ==
    IF i = 1 \/ t[i - 1] # BS THEN 0 ELSE 1 + BackslashesBefore(t, i - 1)

EscapeStart(t, i) == t[i] = BS /\ BackslashesBefore(t, i) % 2 = 0

TemplateRaises(t) ==
    \E i \in 1..Len(t) :
        /\ EscapeStart(t, i)
        /\ \/ i = Len(t)                           \* bad escape (end of pattern)
           \/ t[i + 1] \in BadEscapeWords

\* What the escape "\c" stands for
EscapeOf(c) ==
    IF c = BS THEN <<BS>>
    ELSE IF c \in TabWords THEN <<TAB, RestOfWord(c)>>
    ELSE IF c = "a" THEN <<"<BEL>">>
    ELSE IF c = "b" THEN <<"<BACKSPACE>">>
    ELSE IF c = "rm" THEN <<"<CR>", "m">>
    ELSE <<BS, c>>

TemplateText(t) ==
    Flatten([i \in 1..Len(t) |->
               IF EscapeStart(t, i) /\ i < Len(t) THEN EscapeOf(t[i + 1])
               ELSE IF i > 1 /\ EscapeStart(t, i - 1) THEN <<>>
               ELSE <<t[i]>>])

(***************************************************************************)
(* replace_section_content, lines 997-1009                                 *)
(***************************************************************************)
\* pattern.search: the leftmost match of
\*   (\\section\{title\})(.+?)(?=\\section|\\end\{document\})
\* as <<i, j>>: group 1 is the token at i, group 2 the tokens i+1 .. j-1 (at
\* least one, for .+?), and the lookahead succeeds at j.  <<0, 0>>: no match.
MatchEnds(full_latex, i) ==
    {j \in (i + 2)..Len(full_latex) : full_latex[j] \in BoundaryTokens}

MatchStarts(full_latex, section_title) ==
    {i \in 1..Len(full_latex) :
        /\ full_latex[i] \in MarkersOf(section_title)
        /\ MatchEnds(full_latex, i) # {}}

PatternSearch(full_latex, section_title) ==
    IF MatchStarts(full_latex, section_title) = {} THEN <<0, 0>>
    ELSE LET i == Min(MatchStarts(full_latex, section_title))
         IN  <<i, Min(MatchEnds(full_latex, i))>>

\* line 1009: str.replace replaces every occurrence of "\end{document}"
AppendSection(full_latex, section_title, new_section_body) ==
    ReplaceAll(full_latex, EndDocument,
               <<SectionMarker(section_title), NL>> \o new_section_body
               \o <<NL, NL, EndDocument>>)

\* The result is Str(text), or Raise("re.error") when the template is bad.
replace_section_content(full_latex, section_title, new_section_body) ==
    LET m == PatternSearch(full_latex, section_title)
    IN  IF m # <<0, 0>>
        THEN IF TemplateRaises(new_section_body) THEN Raise("re.error")
             ELSE Str(SubSeq(full_latex, 1, m[1])               \* r"\1"
                      \o <<NL>> \o TemplateText(new_section_body)
                      \o SubSeq(full_latex, m[2], Len(full_latex)))
        ELSE Str(AppendSection(full_latex, section_title, new_section_body))

\* lines 1011-1027
PreserveExperience(structured_resume, latex) ==
    IF HasSubsections(structured_resume, "experience")
    THEN replace_section_content(latex, "Experience",
                                 ExperienceBody(structured_resume.experience))
    ELSE Str(latex)

\* lines 1029-1043
PreserveProjects(structured_resume, latex) ==
    IF HasSubsections(structured_resume, "projects")
    THEN replace_section_content(latex, "Projects",
                                 ProjectsBody(structured_resume.projects))
    ELSE Str(latex)

preserve_original_latex_structure(structured_resume, original_latex) ==
    LET afterExperience == PreserveExperience(structured_resume, original_latex)
    IN  IF IsRaise(afterExperience) THEN afterExperience
        ELSE PreserveProjects(structured_resume, afterExperience.str)

(***************************************************************************)
(* structure_to_latex, lines 783-986 (the definition in force: it replaces *)
(* the one of lines 217-425)                                               *)
(***************************************************************************)
\* lines 795-862: the fixed preamble, one token for the lines before
\* \begin{document}, which nothing in the program looks into
PreambleLines == << <<"<preamble lines 796-859>">>, <<"\\begin{document}">>, <<>> >>

\* lines 865-874
ContactLines(structured_resume) ==
    IF ~HasLines(structured_resume, "contact") THEN <<>>
    ELSE LET lines == structured_resume.contact.lines
         IN  << <<"\\begin{center}">> >>
             \o [i \in 1..Len(lines) |->
                   IF i = 1
                   THEN <<"    \\textbf{\\Huge \\scshape ">>
                        \o escape_latex_characters(lines[i])
                        \o <<"} \\\\ \\vspace{1pt}">>
                   ELSE <<"    \\small ">> \o escape_latex_characters(lines[i])]
             \o << <<"\\end{center}">>, <<>> >>

\* A summary block that renders an unset section as an empty one
SummaryLines_RenderEmpty(structured_resume) ==
    LET lines == IF structured_resume.summary = None THEN <<>>
                 ELSE structured_resume.summary.lines
    IN  << <<"\\section{Professional Summary}">> >>
        \o [i \in 1..Len(lines) |->
              <<BS, "small", "{">> \o escape_latex_characters(lines[i]) \o <<"}">>]
        \o << <<>> >>

\* lines 877-881
SummaryLines(structured_resume) ==
    IF ~HasLines(structured_resume, "summary") THEN <<>>
    ELSE LET lines == structured_resume.summary.lines
         IN  << <<"\\section{Professional Summary}">> >>
             \o [i \in 1..Len(lines) |->
                   <<BS, "small", "{">> \o escape_latex_characters(lines[i]) \o <<"}">>]
             \o << <<>> >>

\* lines 886-906, 909-928, 931-948, 951-968: one block of a section with
\* subsections; Education and Experience use the line of 896/919, Projects
\* and Certifications the line of 939/959
SubsectionBlock(structured_resume, name, header) ==
    IF ~HasSubsections(structured_resume, name) THEN <<>>
    ELSE LET subsections == structured_resume[name].subsections
         IN  << <<header>>, <<"  ", BS, BS, "resumeSubHeadingListStart">> >>
             \o Flatten([i \in 1..Len(subsections) |->
                            IF name \in {"education", "experience"}
                            THEN ExperienceItemLines(subsections[i])
                            ELSE ProjectItemLines(subsections[i])])
             \o << <<"  ", BS, BS, "resumeSubHeadingListEnd">>, <<>> >>

\* lines 971-983
SkillsLines(structured_resume) ==
    IF ~HasLines(structured_resume, "skills") THEN <<>>
    ELSE LET lines == structured_resume.skills.lines
         IN  << <<"\\section{Skills}">>,
                <<"  \\begin{itemize}[leftmargin=0.15in, label={}]">>,
                <<"    \\small{\\item{">> >>
             \o [i \in 1..Len(lines) |->
                   IF i < Len(lines)
                   THEN <<"      ">> \o escape_latex_characters(lines[i])
                        \o <<" ", BS, BS>>
                   ELSE <<"      ">> \o escape_latex_characters(lines[i])]
             \o << <<"    }}">>, <<"  \\end{itemize}">>, <<>> >>

FallbackLatex(structured_resume) ==
    JoinLines(PreambleLines
              \o ContactLines(structured_resume)
              \o SummaryLines(structured_resume)
              \o SubsectionBlock(structured_resume, "education",
                                 "\\section{Education}")
              \o SubsectionBlock(structured_resume, "experience",
                                 "\\section{Experience}")
              \o SubsectionBlock(structured_resume, "projects",
                                 "\\section{Projects}")
              \o SubsectionBlock(structured_resume, "certifications",
                                 "\\section{Certifications \\& Achievements}")
              \o SkillsLines(structured_resume)
              \o << <<EndDocument>> >>)

\* lines 790-791: a non-empty original_latex selects the replacement strategy.
\* original_latex is None or Str(text).
structure_to_latex(structured_resume, original_latex) ==
    IF original_latex # None /\ original_latex.str # <<>>
    THEN preserve_original_latex_structure(structured_resume, original_latex.str)
    ELSE Str(FallbackLatex(structured_resume))

(***************************************************************************)
(* structure_to_docx, lines 1050-1139.  The document is the sequence of    *)
(* the elements added to it: headings and paragraphs of runs.              *)
(***************************************************************************)
Run(text, fmt) == [text |-> text, fmt |-> fmt]
Paragraph(runs, style, align) ==
    [kind |-> "paragraph", runs |-> runs, style |-> style, align |-> align]
Heading(title) ==
    [kind |-> "heading", runs |-> <<Run(title, "plain")>>, style |-> "Heading 1",
     align |-> "LEFT"]
EmptyParagraph == Paragraph(<<>>, "Normal", "LEFT")

\* lines 1066-1070
DocxContact(structured_resume) ==
    IF ~HasLines(structured_resume, "contact") THEN <<>>
    ELSE LET lines == structured_resume.contact.lines
         IN  [i \in 1..Len(lines) |->
                Paragraph(<<Run(lines[i], "plain")>>, "Normal", "CENTER")]
             \o <<EmptyParagraph>>

\* lines 1073-1077
DocxSummary(structured_resume) ==
    IF ~HasLines(structured_resume, "summary") THEN <<>>
    ELSE LET lines == structured_resume.summary.lines
         IN  <<Heading(<<"Professional Summary">>)>>
             \o [i \in 1..Len(lines) |->
                   Paragraph(<<Run(lines[i], "plain")>>, "Normal", "LEFT")]
             \o <<EmptyParagraph>>

\* lines 1098-1103: the organization line of an Experience/Education item
DocxOrgLine(organization, location) ==
    IF organization = <<>> /\ location = <<>> THEN <<>>
    ELSE <<Paragraph(
            <<Run(IF location = <<>> THEN organization
                  ELSE IF organization # <<>>
                       THEN organization \o <<" | ">> \o location
                       ELSE location, "italic")>>,
            "Normal", "LEFT")>>

\* lines 1083-1118: one item
DocxItem(title, item) ==
    LET heading == Get(item, "heading", <<>>)
        organization == Get(item, "organization", <<>>)
        location == Get(item, "location", <<>>)
        date == Get(item, "date", <<>>)
        bullets == NonEmptyBullets(item)
        p == Paragraph(<<Run(heading, "bold"), Run(<<TAB>>, "plain"),
                         Run(date, "italic")>>, "Normal", "LEFT")
    IN  <<p>>
        \o (IF title \in {<<"Experience">>, <<"Education">>}
            THEN DocxOrgLine(organization, location) ELSE <<>>)
        \o [i \in 1..Len(bullets) |->
              Paragraph(<<Run(bullets[i], "plain")>>, "List Bullet", "LEFT")]

\* add_docx_section, lines 1080-1119
add_docx_section(title, section_obj) ==
    IF section_obj = None \/ section_obj.subsections = <<>> THEN <<>>
    ELSE <<Heading(title)>>
         \o Flatten([i \in 1..Len(section_obj.subsections) |->
                        DocxItem(title, section_obj.subsections[i])])
         \o <<EmptyParagraph>>

\* lines 1128-1133
DocxSkills(structured_resume) ==
    IF ~HasLines(structured_resume, "skills") THEN <<>>
    ELSE LET lines == structured_resume.skills.lines
         IN  <<Heading(<<"Skills">>)>>
             \o [i \in 1..Len(lines) |->
                   Paragraph(<<Run(lines[i], "bold")>>, "Normal", "LEFT")]
             \o <<EmptyParagraph>>

\* The result is None without python-docx (lines 1052-1053), else the document.
structure_to_docx(structured_resume, DOCX_AVAILABLE) ==
    IF ~DOCX_AVAILABLE THEN None
    ELSE [docx |->
            DocxContact(structured_resume)
            \o DocxSummary(structured_resume)
            \o add_docx_section(<<"Education">>, structured_resume.education)
            \o add_docx_section(<<"Experience">>, structured_resume.experience)
            \o add_docx_section(<<"Projects">>, structured_resume.projects)
            \o add_docx_section(<<"Certifications & Achievements">>,
                                structured_resume.certifications)
            \o DocxSkills(structured_resume)]

(***************************************************************************)
(* The text of an LLM response (response.text).  Its tokens are records: a *)
(* Markdown fence, a blank, a piece of prose, or the JSON text of a value. *)
(* A fence is three backquotes, written ''' in a token: a TLA+ string holds *)
(* no backquote.                                                           *)
(* A JSON object is JObject(d), d the dict json.loads makes of it; the     *)
(* section data inside an object are dicts.                                *)
(***************************************************************************)
Tok(s) == [tok |-> s]
FenceJson == Tok("'''json")
Fence == Tok("'''")
RespBlanks == {Tok(" "), Tok("\n")}
Prose == Tok("Here is the tailored resume:")
Truncated == Tok("{\"experience\": {\"title\":")        \* JSON text cut short
JsonText(value) == [json |-> value]
JObject(d) == [obj |-> d]
JArray(a) == [arr |-> a]

\* json.loads: blanks around the one JSON text are allowed, nothing else is
json_loads(json_text) ==
    LET core == Strip(json_text, RespBlanks)
    IN  IF Len(core) = 1 /\ DOMAIN core[1] = {"json"} THEN core[1].json
        ELSE Raise("JSONDecodeError")

(***************************************************************************)
(* parse_latex_into_structure, lines 107-215.  llm is what                 *)
(* model.generate_content(prompt) does: Raise(e), or Str(response.text).   *)
(***************************************************************************)
IsFence(t) == t \in {FenceJson, Fence}
NotFence(t) == ~IsFence(t)

\* line 198: response.text.strip().replace('```json', '').replace('```', '')
ParserJsonText(text) == SelectSeq(Strip(text, RespBlanks), NotFence)

\* str.capitalize() of a key
Capitalize(section_name) ==
    CASE section_name = "contact" -> <<"Contact">>
      [] section_name = "summary" -> <<"Summary">>
      [] section_name = "experience" -> <<"Experience">>
      [] section_name = "skills" -> <<"Skills">>
      [] section_name = "education" -> <<"Education">>
      [] section_name = "projects" -> <<"Projects">>
      [] section_name = "certifications" -> <<"Certifications">>
      [] section_name = "awards" -> <<"Awards">>

\* lines 202-208: resume_data, one ResumeSection per key of the response
ResumeData(data) ==
    [section_name \in DOMAIN data |->
        ResumeSection(Get(data[section_name], "title", Capitalize(section_name)),
                      Get(data[section_name], "lines", <<>>),
                      Get(data[section_name], "subsections", <<>>))]

\* line 210: StructuredResume(**resume_data); a keyword that is no field of
\* the dataclass is a TypeError
StructuredResume(resume_data) ==
    IF DOMAIN resume_data \subseteq SectionNames
    THEN [n \in SectionNames |-> Get(resume_data, n, None)]
    ELSE Raise("TypeError")

\* A handler without line 214: the raw response is not shown
ParseFailure_NoRawText(e, llm) ==
    [ret |-> IF IsRaise(llm) THEN Raise("UnboundLocalError") ELSE None,
     reported |-> <<Message("error", "Error parsing LaTeX into new structure",
                            [exc |-> e])>>,
     calls |-> <<"generate_content">>]

\* lines 212-215.  When generate_content raised, `response` is unbound and
\* line 214 raises UnboundLocalError out of the handler.
ParseFailure(e, llm) ==
    IF IsRaise(llm)
    THEN [ret |-> Raise("UnboundLocalError"),
          reported |-> <<Message("error", "Error parsing LaTeX into new structure",
                                 [exc |-> e])>>,
          calls |-> <<"generate_content">>]
    ELSE [ret |-> None,
          reported |-> <<Message("error", "Error parsing LaTeX into new structure",
                                 [exc |-> e]),
                         Message("error", "LLM Response was", [raw |-> llm.str])>>,
          calls |-> <<"generate_content">>]

\* The result is [ret, reported, calls]: the value returned (or Raise), the
\* messages shown on the way, and the calls made to the outside (line 196:
\* model.generate_content, once, in no loop).
parse_latex_into_structure(latex_code, llm) ==
    IF IsRaise(llm) THEN ParseFailure(llm.raise, llm)
    ELSE LET data == json_loads(ParserJsonText(llm.str))
         IN  IF IsRaise(data) THEN ParseFailure(data.raise, llm)
             ELSE IF DOMAIN data # {"obj"}                    \* no .items()
                  THEN ParseFailure("AttributeError", llm)
             ELSE IF \E k \in DOMAIN data.obj : data.obj[k] = None   \* no .get
                  THEN ParseFailure("AttributeError", llm)
             ELSE LET resume == StructuredResume(ResumeData(data.obj))
                  IN  IF IsRaise(resume) THEN ParseFailure(resume.raise, llm)
                      ELSE [ret |-> resume, reported |-> <<>>,
                            calls |-> <<"generate_content">>]

(***************************************************************************)
(* optimize_content_lines, lines 661-781, and apply_ats_feedback, lines    *)
(* 565-659                                                                 *)
(***************************************************************************)
\* lines 719-725 and 598-604: one leading ```json and one trailing ``` go
OptimizerJsonText(text) ==
    LET s0 == Strip(text, RespBlanks)
        s1 == IF s0 # <<>> /\ s0[1] = FenceJson THEN Tail(s0) ELSE s0
        s2 == IF s1 # <<>> /\ s1[Len(s1)] = Fence
              THEN SubSeq(s1, 1, Len(s1) - 1) ELSE s1
    IN  Strip(s2, RespBlanks)

LineSections == {"contact", "summary", "skills"}

\* One `if "<name>" in data:` block of lines 730-774 (609-653): d["title"] and
\* d["lines"] are KeyError when missing, d.get("subsections", []) is not; a
\* null d is not subscriptable
SectionFromData(name, d) ==
    IF d = None THEN Raise("TypeError")                      \* null["title"]
    ELSE IF name \in LineSections
    THEN IF {"title", "lines"} \subseteq DOMAIN d
         THEN ResumeSection(d["title"], d["lines"], <<>>)
         ELSE Raise("KeyError")
    ELSE IF "title" \in DOMAIN d
         THEN ResumeSection(d["title"], <<>>, Get(d, "subsections", <<>>))
         ELSE Raise("KeyError")

\* lines 728-776 (607-655).  `"contact" in data` is False for a JSON array
\* that holds no such string, so an array yields StructuredResume().
ResumeFromData(data) ==
    IF DOMAIN data = {"arr"} THEN EmptyResume
    ELSE LET built == [n \in SectionNames |->
                          IF n \in DOMAIN data.obj
                          THEN SectionFromData(n, data.obj[n]) ELSE None]
             failed == {n \in SectionNames : IsRaise(built[n])}
         IN  IF failed # {} THEN built[CHOOSE n \in failed : TRUE]
             ELSE built

\* An optimizer that writes the sections of the response into its argument
\* and returns the argument
optimize_content_lines_InPlace(structured_resume, llm) ==
    IF IsRaise(llm)
    THEN [ret |-> Raise("UnboundLocalError"),
          reported |-> <<Message("error", "Error optimizing resume content",
                                 [exc |-> llm.raise])>>,
          structured_resume |-> structured_resume,
          same_object |-> FALSE,
          calls |-> <<"generate_content">>]
    ELSE LET data == json_loads(OptimizerJsonText(llm.str))
             optimized_resume == IF IsRaise(data) THEN data ELSE ResumeFromData(data)
         IN  IF IsRaise(optimized_resume)
             THEN [ret |-> structured_resume,
                   reported |-> <<Message("error", "Error optimizing resume content",
                                          [exc |-> optimized_resume.raise]),
                                  Message("error", "AI Response was",
                                          [raw |-> llm.str])>>,
                   structured_resume |-> structured_resume,
                   same_object |-> TRUE,
                   calls |-> <<"generate_content">>]
             ELSE [ret |-> optimized_resume, reported |-> <<>>,
                   structured_resume |-> optimized_resume,
                   same_object |-> TRUE,
                   calls |-> <<"generate_content">>]

\* lines 714-781.  The handler of 778-781 returns the input resume; when
\* generate_content raised, line 780 raises UnboundLocalError instead.
\* The result also tells what the call leaves of its argument
\* (structured_resume: the function only reads it, for the prompt, line 665),
\* whether the object returned is the argument itself (same_object: line 781,
\* against the StructuredResume() of line 728), and the calls made to the
\* outside (line 716, once).
optimize_content_lines(structured_resume, llm) ==
    IF IsRaise(llm)
    THEN [ret |-> Raise("UnboundLocalError"),
          reported |-> <<Message("error", "Error optimizing resume content",
                                 [exc |-> llm.raise])>>,
          structured_resume |-> structured_resume,
          same_object |-> FALSE,
          calls |-> <<"generate_content">>]
    ELSE LET data == json_loads(OptimizerJsonText(llm.str))
             optimized_resume == IF IsRaise(data) THEN data ELSE ResumeFromData(data)
         IN  IF IsRaise(optimized_resume)
             THEN [ret |-> structured_resume,
                   reported |-> <<Message("error", "Error optimizing resume content",
                                          [exc |-> optimized_resume.raise]),
                                  Message("error", "AI Response was",
                                          [raw |-> llm.str])>>,
                   structured_resume |-> structured_resume,
                   same_object |-> TRUE,
                   calls |-> <<"generate_content">>]
             ELSE [ret |-> optimized_resume, reported |-> <<>>,
                   structured_resume |-> structured_resume,
                   same_object |-> FALSE,
                   calls |-> <<"generate_content">>]

\* lines 593-659.  The handler of 657-659 returns the input resume.  The
\* result has the fields of optimize_content_lines's (the StructuredResume()
\* is line 607, the call to the outside line 595).
apply_ats_feedback(structured_resume, llm) ==
    LET data == IF IsRaise(llm) THEN llm
                ELSE json_loads(OptimizerJsonText(llm.str))
        improved_resume == IF IsRaise(data) THEN data ELSE ResumeFromData(data)
    IN  IF IsRaise(improved_resume)
        THEN [ret |-> structured_resume,
              reported |-> <<Message("error", "Error applying ATS feedback",
                                     [exc |-> improved_resume.raise])>>,
              structured_resume |-> structured_resume,
              same_object |-> TRUE,
              calls |-> <<"generate_content">>]
        ELSE [ret |-> improved_resume, reported |-> <<>>,
              structured_resume |-> structured_resume,
              same_object |-> FALSE,
              calls |-> <<"generate_content">>]

(***************************************************************************)
(* clean_latex_output, lines 1142-1148                                     *)
(***************************************************************************)
\* line 1145, r'^```latex\s*' with re.MULTILINE: the fence at the start of a
\* line and the blanks after it
OpenFenceAt(text, i) == text[i] = "'''latex" /\ (i = 1 \/ text[i - 1] = NL)

RECURSIVE AfterOpenFence(_, _)
AfterOpenFence(text, i) ==
    /\ i > 1
    /\ text[i] \in Blanks
    /\ OpenFenceAt(text, i - 1) \/ AfterOpenFence(text, i - 1)

RemoveOpenFences(text) ==
    Flatten([i \in 1..Len(text) |->
               IF OpenFenceAt(text, i) \/ AfterOpenFence(text, i)
               THEN <<>> ELSE <<text[i]>>])

\* The last token of the run of blanks that starts at i (i - 1 if none)
RECURSIVE BlankRunEnd(_, _)
BlankRunEnd(text, i) ==
    IF i <= Len(text) /\ text[i] \in Blanks THEN BlankRunEnd(text, i + 1) ELSE i - 1

\* line 1147, r'\s*```\s*$' with re.MULTILINE: a fence is matched when the
\* blanks after it reach the end of the text or hold a newline; the match
\* ends at the end of the text or before the last newline of these blanks,
\* and it starts with the blanks before the fence.
CloseFenceEnd(text, i) ==
    LET k == BlankRunEnd(text, i + 1)
        newlines == {n \in (i + 1)..k : text[n] = NL}
    IN  IF k = Len(text) THEN k
        ELSE IF newlines # {} THEN Max(newlines) - 1
        ELSE 0                                              \* no match
CloseFenceAt(text, i) == text[i] = "'''" /\ CloseFenceEnd(text, i) # 0

InCloseFence(text, i) ==
    \E f \in 1..Len(text) :
        /\ CloseFenceAt(text, f)
        /\ \/ f <= i /\ i <= CloseFenceEnd(text, f)
           \/ i < f /\ BlankRunEnd(text, i) = f - 1

RemoveCloseFences(text) ==
    Flatten([i \in 1..Len(text) |->
               IF InCloseFence(text, i) THEN <<>> ELSE <<text[i]>>])

clean_latex_output(latex_code) ==
    Strip(RemoveCloseFences(RemoveOpenFences(latex_code)), Blanks)

(***************************************************************************)
(* compile_latex_to_pdf, lines 1279-1287, and compile_latex_to_pdf_online, *)
(* lines 1289-1329.  http is what requests.post does: Raise(e), or the     *)
(* response [status_code, content, json]: content the body, a sequence of  *)
(* tokens, json what response.json() makes of it: a JSON value (JObject(d)  *)
(* for an object, its strings Str(s)), Raise("JSONDecodeError") for a      *)
(* json.JSONDecodeError, or Raise of the decode error of another JSON      *)
(* library of the host, which is no json.JSONDecodeError.                  *)
(***************************************************************************)
PdfMagic == "%PDF"
NoLogs == Str(<<"No logs were returned.">>)

\* lines 1311-1312: a string wrapped as b'...' loses the wrapper
UnwrapLogs(logs) ==
    IF /\ IsStr(logs)
       /\ Len(logs.str) >= 2
       /\ logs.str[1] = "b'"
       /\ logs.str[Len(logs.str)] = "'"
    THEN Str(SubSeq(logs.str, 2, Len(logs.str) - 1))
    ELSE logs

\* lines 1302-1318: what st.error shows after "Online PDF compilation failed":
\* the logs of a JSON object, the raw text when response.json() raises or
\* the value has no .get
CompileDiagnostic(http) ==
    IF IsRaise(http.json) \/ DOMAIN http.json # {"obj"}
    THEN [status_code |-> http.status_code, raw |-> http.content]
    ELSE [status_code |-> http.status_code,
          logs |-> UnwrapLogs(Get(http.json.obj, "logs", NoLogs))]

\* The result is [ret, reported, calls]; line 1296 is the one call to the
\* outside.
compile_latex_to_pdf_online(latex_code, http) ==
    IF IsRaise(http)
    THEN [ret |-> None,
          reported |-> <<Message("error",
                                 IF http.raise = "Timeout"
                                 THEN "Online compilation timed out"
                                 ELSE "An unexpected error occurred during online compilation",
                                 [exc |-> http.raise])>>,
          calls |-> <<"requests.post">>]
    ELSE IF /\ http.status_code \in {200, 201}
            /\ http.content # <<>>
            /\ http.content[1] = PdfMagic
         THEN [ret |-> Str(http.content), reported |-> <<>>,
               calls |-> <<"requests.post">>]
         ELSE IF IsRaise(http.json) /\ http.json.raise # "JSONDecodeError"
         THEN [ret |-> None,                       \* lines 1327-1329
               reported |-> <<Message("error",
                                      "An unexpected error occurred during online compilation",
                                      [exc |-> http.json.raise])>>,
               calls |-> <<"requests.post">>]
         ELSE [ret |-> None,
               reported |-> <<Message("error", "Online PDF compilation failed",
                                      CompileDiagnostic(http))>>,
               calls |-> <<"requests.post">>]

\* lines 1279-1287: the online service, whatever the host has installed
compile_latex_to_pdf(latex_code, http) == compile_latex_to_pdf_online(latex_code, http)

(***************************************************************************)
(* extract_text_from_pdf, lines 1151-1173.  plumber and pypdf are what the *)
(* two libraries do with the bytes: Raise(e), or [pages], each page's      *)
(* extract_text() being None or Str(text).                                 *)
(***************************************************************************)
\* lines 1156-1161
PlumberText(pages) ==
    Strip(Flatten([i \in 1..Len(pages) |->
                     IF pages[i] = None \/ pages[i].str = <<>> THEN <<>>
                     ELSE pages[i].str \o <<NL>>]), Blanks)

\* lines 1166-1170: page.extract_text() + "\n" is a TypeError for None
PyPdfText(pages) ==
    IF \E i \in 1..Len(pages) : pages[i] = None THEN Raise("TypeError")
    ELSE Str(Strip(Flatten([i \in 1..Len(pages) |-> pages[i].str \o <<NL>>]),
                   Blanks))

\* An extraction that answers the empty text when both libraries fail
extract_text_from_pdf_EmptyOnFailure(pdf_bytes, plumber, pypdf) ==
    IF ~IsRaise(plumber)
    THEN [ret |-> Str(PlumberText(plumber.pages)), reported |-> <<>>,
          calls |-> <<"pdfplumber.open">>]
    ELSE LET text == IF IsRaise(pypdf) THEN pypdf ELSE PyPdfText(pypdf.pages)
             warned == Message("warning", "Could not parse PDF with pdfplumber",
                               [exc |-> plumber.raise])
         IN  IF IsRaise(text)
             THEN [ret |-> Str(<<>>),
                   reported |-> <<warned,
                                  Message("error",
                                          "Failed to extract text from PDF with all methods",
                                          [exc |-> text.raise])>>,
                   calls |-> <<"pdfplumber.open", "PyPDF2.PdfReader">>]
             ELSE [ret |-> text, reported |-> <<warned>>,
                   calls |-> <<"pdfplumber.open", "PyPDF2.PdfReader">>]

extract_text_from_pdf(pdf_bytes, plumber, pypdf) ==
    IF ~IsRaise(plumber)
    THEN [ret |-> Str(PlumberText(plumber.pages)), reported |-> <<>>,
          calls |-> <<"pdfplumber.open">>]
    ELSE LET text == IF IsRaise(pypdf) THEN pypdf ELSE PyPdfText(pypdf.pages)
             warned == Message("warning", "Could not parse PDF with pdfplumber",
                               [exc |-> plumber.raise])
         IN  IF IsRaise(text)
             THEN [ret |-> None,
                   reported |-> <<warned,
                                  Message("error",
                                          "Failed to extract text from PDF with all methods",
                                          [exc |-> text.raise])>>,
                   calls |-> <<"pdfplumber.open", "PyPDF2.PdfReader">>]
             ELSE [ret |-> text, reported |-> <<warned>>,
                   calls |-> <<"pdfplumber.open", "PyPDF2.PdfReader">>]

(***************************************************************************)
(* check_ats_compatibility, lines 1223-1276.  llm is Raise(e) or           *)
(* Str(response.text), the report.                                         *)
(***************************************************************************)
check_ats_compatibility(resume_text, job_description, llm) ==
    [ret |-> IF IsRaise(llm)
             THEN Str(<<"Error analyzing ATS compatibility: ", llm.raise>>)
             ELSE llm,
     reported |-> <<>>,
     calls |-> <<"generate_content">>]                          \* line 1272

(***************************************************************************)
(* Inputs                                                                  *)
(***************************************************************************)
MaxDocLen == 4      \* tokens of an original document
MaxSubs == 2        \* subsections of a section

RECURSIVE SeqsUpTo(_, _)
SeqsUpTo(S, n) ==
    IF n = 0 THEN {<<>>}
    ELSE LET shorter == SeqsUpTo(S, n - 1)
         IN  shorter \cup {Append(q, e) : q \in {r \in shorter : Len(r) = n - 1}, e \in S}

\* One subsection entry as the parser prompt shows it (lines 147-153)
ItemPlain ==
    [heading |-> <<"Software", " ", "Engineer">>, organization |-> <<"Acme">>,
     location |-> <<"NYC">>, date |-> <<"2020-2022">>,
     bullets |-> << <<"a">>, <<"b">> >>]
\* An entry with special characters, a blank bullet and two keys missing
ItemSpecial ==
    [heading |-> <<"a", "&", "b">>, date |-> <<"2020">>,
     bullets |-> << <<" ">>, <<"a", "^">> >>]
\* An entry whose text holds allow-listed commands
ItemCommand ==
    [heading |-> <<BS, "textbf", "{", "a", "}">>, organization |-> <<>>,
     location |-> <<>>, date |-> <<>>, bullets |-> << <<"a", BS, "hfill">> >>]

Items == {ItemPlain, ItemSpecial, ItemCommand}
Sections(title, items) ==
    {ResumeSection(title, <<>>, subs) : subs \in SeqsUpTo(items, MaxSubs)}
SkillsSection == ResumeSection(<<"Skills">>, << <<"a", "&">>, <<"b">> >>, <<>>)

Docs == SeqsUpTo(DocTokens, MaxDocLen)

\* Resumes for the preserve-mode calls: the two covered sections vary
PreserveResumes ==
    {[EmptyResume EXCEPT !.experience = e, !.projects = p] :
        e \in {None} \cup Sections(<<"Experience">>, Items),
        p \in {None} \cup Sections(<<"Projects">>, {ItemPlain})}

(***************************************************************************)
(* SpecPreserve: structure_to_latex(R, D) for every R and D of the bounds  *)
(***************************************************************************)
\* The harness specifications leave the script alone
HarnessIdle ==
    /\ flags = None
    /\ pc = "harness"
    /\ session_state = EmptyDict
    /\ locals = EmptyDict
    /\ downloads = <<>>

InitPreserve ==
    /\ call \in {[fn |-> "structure_to_latex", resume |-> r, original |-> Str(d)] :
                    r \in PreserveResumes, d \in Docs}
    /\ ret = Pending
    /\ reported = <<>>
    /\ HarnessIdle

CallStructureToLatex ==
    /\ call.fn = "structure_to_latex"
    /\ ret = Pending
    /\ ret' = structure_to_latex(call.resume, call.original)
    /\ UNCHANGED <<call, reported, script_vars>>

SpecPreserve == InitPreserve /\ [][CallStructureToLatex]_vars

(***************************************************************************)
(* Inputs of the LLM-backed functions                                      *)
(***************************************************************************)
MaxPages == 2       \* pages of a compiled PDF

\* An entry like ItemPlain with its bullets reworded
ItemReworded ==
    [heading |-> <<"Software", " ", "Engineer">>, organization |-> <<"Acme">>,
     location |-> <<"NYC">>, date |-> <<"2020-2022">>,
     bullets |-> << <<"b">>, <<"a", " ", "b">> >>]

\* Section data in the JSON format of the prompts (lines 121-183)
ContactData == [title |-> <<"Contact">>, lines |-> << <<"a">>, <<"b", "&">> >>]
SkillsData == [title |-> <<"Skills">>, lines |-> << <<"a", "&">>, <<"b">> >>]
AwardsData == [title |-> <<"Awards">>, lines |-> << <<"a">> >>]
SubsectionData(title, subsections) ==
    [title |-> title, lines |-> <<>>, subsections |-> subsections]

Restrict(d, keys) == [k \in keys |-> d[k]]

\* What the parser is answered: objects over known and unknown keys, section
\* data with keys missing, a null section, an array
ParseAnswer ==
    [contact |-> ContactData,
     experience |-> SubsectionData(<<"Experience">>, <<ItemPlain>>),
     skills |-> SkillsData,
     awards |-> AwardsData]
ParseValues ==
    {JObject(Restrict(ParseAnswer, keys)) : keys \in SUBSET DOMAIN ParseAnswer}
    \cup {JObject([experience |-> [subsections |-> <<ItemPlain, ItemSpecial>>]]),
          JObject([summary |-> [lines |-> << <<"a">> >>]]),
          JObject([contact |-> None, experience |-> ParseAnswer.experience]),
          JArray(<<>>)}

\* The ways a response wraps its JSON text
Wraps(payload) ==
    {<<payload>>,
     <<FenceJson, Tok("\n"), payload, Tok("\n"), Fence>>,
     <<Fence, Tok("\n"), payload, Tok("\n"), Fence>>,
     <<Tok("\n"), payload, Tok(" ")>>,
     <<Fence, payload, Fence>>,
     <<Prose, Tok("\n"), payload>>}

TextsOf(values) ==
    UNION {Wraps(JsonText(v)) : v \in values}
    \cup {<<>>, <<Prose>>, <<Truncated>>, <<FenceJson, Truncated, Fence>>}

\* What model.generate_content does
LlmOutcomes(values) == {Raise("APIError")} \cup {Str(t) : t \in TextsOf(values)}

\* Resumes handed to the optimizers
ResumeTwo ==
    [EmptyResume EXCEPT
        !.experience = ResumeSection(<<"Experience">>, <<>>, <<ItemPlain, ItemSpecial>>),
        !.skills = SkillsSection]
ResumeOne ==
    [EmptyResume EXCEPT
        !.experience = ResumeSection(<<"Experience">>, <<>>, <<ItemPlain>>)]
ResumeContact ==
    [EmptyResume EXCEPT
        !.contact = ResumeSection(<<"Contact">>, ContactData.lines, <<>>),
        !.skills = SkillsSection]
OptimizerResumes == {ResumeTwo, ResumeOne, ResumeContact, EmptyResume}

\* What an optimizer is answered
OptimizerValues ==
    {JObject([experience |-> SubsectionData(<<"Experience">>, <<ItemReworded, ItemSpecial>>),
              skills |-> SkillsData]),
     JObject([experience |-> SubsectionData(<<"Experience">>, <<ItemReworded>>),
              skills |-> SkillsData]),
     JObject([experience |-> SubsectionData(<<"Experience">>, <<ItemReworded>>)]),
     JObject([skills |-> SkillsData]),
     JObject([contact |-> ContactData, skills |-> SkillsData]),
     JObject([experience |-> SubsectionData(<<"Experience">>, <<ItemReworded>>),
              projects |-> SubsectionData(<<"Projects">>, <<ItemPlain>>)]),
     JObject([experience |-> SubsectionData(<<"Experience">>, <<ItemReworded>>),
              awards |-> AwardsData]),
     JObject([experience |-> [subsections |-> <<ItemReworded>>]]),
     JObject([n \in SectionNames |->
                IF n = "experience"
                THEN SubsectionData(<<"Experience">>, <<ItemReworded>>) ELSE None]),
     JObject(EmptyDict),
     JArray(<<>>)}

(***************************************************************************)
(* SpecParse: parse_latex_into_structure for every source and LLM outcome  *)
(***************************************************************************)
InitParse ==
    /\ call \in {[fn |-> "parse_latex_into_structure", latex_code |-> c, llm |-> o] :
                    c \in {<<>>, <<"\\section{Experience}", "x", EndDocument>>},
                    o \in LlmOutcomes(ParseValues)}
    /\ ret = Pending
    /\ reported = <<>>
    /\ HarnessIdle

CallParse ==
    /\ call.fn = "parse_latex_into_structure"
    /\ ret = Pending
    /\ LET r == parse_latex_into_structure(call.latex_code, call.llm)
       IN  ret' = r.ret /\ reported' = r.reported
    /\ UNCHANGED <<call, script_vars>>

SpecParse == InitParse /\ [][CallParse]_vars

(***************************************************************************)
(* SpecOptimize: the two optimizers for every resume and LLM outcome       *)
(***************************************************************************)
InitOptimize ==
    /\ call \in {[fn |-> f, structured_resume |-> r, llm |-> o] :
                    f \in {"optimize_content_lines", "apply_ats_feedback"},
                    r \in OptimizerResumes,
                    o \in LlmOutcomes(OptimizerValues)}
    /\ ret = Pending
    /\ reported = <<>>
    /\ HarnessIdle

CallOptimize ==
    /\ call.fn = "optimize_content_lines"
    /\ ret = Pending
    /\ LET r == optimize_content_lines(call.structured_resume, call.llm)
       IN  /\ ret' = r.ret
           /\ reported' = r.reported
           /\ call' = [call EXCEPT !.structured_resume = r.structured_resume]
    /\ UNCHANGED script_vars

CallApplyAtsFeedback ==
    /\ call.fn = "apply_ats_feedback"
    /\ ret = Pending
    /\ LET r == apply_ats_feedback(call.structured_resume, call.llm)
       IN  /\ ret' = r.ret
           /\ reported' = r.reported
           /\ call' = [call EXCEPT !.structured_resume = r.structured_resume]
    /\ UNCHANGED script_vars

SpecOptimize == InitOptimize /\ [][CallOptimize \/ CallApplyAtsFeedback]_vars

(***************************************************************************)
(* SpecLlmFunctions: the parser and the two optimizers, each on its inputs *)
(***************************************************************************)
SpecLlmFunctions ==
    /\ InitParse \/ InitOptimize
    /\ [][CallParse \/ CallOptimize \/ CallApplyAtsFeedback]_vars

(***************************************************************************)
(* SpecFallback: the template serializers for every combination of set and *)
(* unset sections                                                          *)
(***************************************************************************)
SectionValues(name) ==
    CASE name = "contact" ->
            {ResumeSection(<<"Contact">>, ContactData.lines, <<>>),
             ResumeSection(<<"Contact">>, <<>>, <<>>)}
      [] name = "summary" -> {ResumeSection(<<"Summary">>, << <<"a", " ", "b">> >>, <<>>)}
      [] name = "experience" ->
            {ResumeSection(<<"Experience">>, <<>>, <<ItemPlain, ItemSpecial>>)}
      [] name = "skills" -> {SkillsSection}
      [] name = "education" -> {ResumeSection(<<"Education">>, <<>>, <<ItemPlain>>)}
      [] name = "projects" -> {ResumeSection(<<"Projects">>, <<>>, <<ItemCommand>>)}
      [] name = "certifications" ->
            {ResumeSection(<<"Certifications">>, <<>>, <<ItemSpecial>>),
             ResumeSection(<<"Certifications">>, <<>>, <<>>)}

Unset(name) == {None} \cup SectionValues(name)
FallbackResumes ==
    {[contact |-> c, summary |-> s, experience |-> x, skills |-> k,
      education |-> e, projects |-> p, certifications |-> a] :
        c \in Unset("contact"), s \in Unset("summary"), x \in Unset("experience"),
        k \in Unset("skills"), e \in Unset("education"), p \in Unset("projects"),
        a \in Unset("certifications")}

InitFallback ==
    /\ call \in {[fn |-> "structure_to_latex", resume |-> r, original |-> o] :
                    r \in FallbackResumes, o \in {None, Str(<<>>)}}
                \cup {[fn |-> "structure_to_docx", resume |-> r, DOCX_AVAILABLE |-> d] :
                        r \in FallbackResumes, d \in BOOLEAN}
    /\ ret = Pending
    /\ reported = <<>>
    /\ HarnessIdle

CallStructureToDocx ==
    /\ call.fn = "structure_to_docx"
    /\ ret = Pending
    /\ ret' = structure_to_docx(call.resume, call.DOCX_AVAILABLE)
    /\ UNCHANGED <<call, reported, script_vars>>

SpecFallback == InitFallback /\ [][CallStructureToLatex \/ CallStructureToDocx]_vars

(***************************************************************************)
(* SpecRender: structure_to_latex on each of its paths, for every          *)
(* combination of set and unset sections                                   *)
(***************************************************************************)
\* An original with an Experience section and no Projects section, and one
\* with a Projects section and no Experience section
DocWithExperience == <<"<preamble>", "\\section{Experience}", "x", EndDocument>>
DocWithProjects == <<"<preamble>", "\\section{Projects}", "x", EndDocument>>
RenderOriginals == {None, Str(DocWithExperience), Str(DocWithProjects)}

InitRender ==
    /\ call \in {[fn |-> "structure_to_latex", resume |-> r, original |-> o] :
                    r \in FallbackResumes, o \in RenderOriginals}
    /\ ret = Pending
    /\ reported = <<>>
    /\ HarnessIdle

SpecRender == InitRender /\ [][CallStructureToLatex]_vars

(***************************************************************************)
(* SpecResumeUsers: the functions that are handed a StructuredResume, the  *)
(* optimizers and the serializers, each on its inputs                      *)
(***************************************************************************)
SpecResumeUsers ==
    /\ InitOptimize \/ InitFallback
    /\ [][\/ CallOptimize
          \/ CallApplyAtsFeedback
          \/ CallStructureToLatex
          \/ CallStructureToDocx]_vars

(***************************************************************************)
(* SpecEscape: escape_latex_characters for every text of the bound         *)
(***************************************************************************)
MaxTextLen == 3     \* tokens of a text handed to the sanitizer

SpecialChars == {"&", "%", "$", "#", "_", "{", "}", "^", "~"}
EscapeWords == {"textbf", "textbfx", "rm", "a"}
EscapeTokens == SpecialChars \cup EscapeWords \cup {BS, " "}

\* A word is a maximal run of letters: no two words stand side by side
Texts ==
    {t \in SeqsUpTo(EscapeTokens, MaxTextLen) :
        \A i \in 1..(Len(t) - 1) : ~(t[i] \in EscapeWords /\ t[i + 1] \in EscapeWords)}

InitEscape ==
    /\ call \in {[fn |-> "escape_latex_characters", text |-> t] :
                   t \in {None} \cup {Str(t) : t \in Texts}}
    /\ ret = Pending
    /\ reported = <<>>
    /\ HarnessIdle

CallEscapeLatexCharacters ==
    /\ call.fn = "escape_latex_characters"
    /\ ret = Pending
    /\ ret' = EscapeArgument(call.text)
    /\ UNCHANGED <<call, reported, script_vars>>

SpecEscape == InitEscape /\ [][CallEscapeLatexCharacters]_vars

(***************************************************************************)
(* SpecCompile: the two compile functions for every answer of the online   *)
(* service, on a host with or without a command-line compiler              *)
(***************************************************************************)
\* What the service answers: a status and a body
CompileStatuses == {200, 201, 204, 400, 500}
CompileBodies ==
    {[content |-> <<PdfMagic, "-1.4", "x">>, json |-> Raise("JSONDecodeError")],
     [content |-> <<>>, json |-> Raise("JSONDecodeError")],
     [content |-> <<"<html>">>, json |-> Raise("JSONDecodeError")],
     [content |-> <<"<html>">>, json |-> Raise("simplejson.JSONDecodeError")],
     [content |-> <<"x", PdfMagic>>, json |-> Raise("JSONDecodeError")],
     [content |-> <<"{\"error\": \"bad tex\"}">>,
      json |-> JObject([error |-> Str(<<"bad tex">>)])],
     [content |-> <<"{\"logs\": \"! Undefined control sequence\"}">>,
      json |-> JObject([logs |-> Str(<<"! Undefined control sequence">>)])],
     [content |-> <<"{\"logs\": \"b'! Missing $ inserted'\"}">>,
      json |-> JObject([logs |-> Str(<<"b'", "! Missing $ inserted", "'">>)])],
     [content |-> <<"[]">>, json |-> JArray(<<>>)]}
CompileOutcomes ==
    {Raise("Timeout"), Raise("ConnectionError")}
    \cup {[status_code |-> c, content |-> b.content, json |-> b.json] :
            c \in CompileStatuses, b \in CompileBodies}

\* What a pdflatex run would do on the host
LocalCompilers == {"absent", "leaves no output file", "writes the PDF"}

InitCompile ==
    /\ call \in {[fn |-> f, latex_code |-> <<"\\section{Experience}", EndDocument>>,
                  http |-> h, pdflatex |-> l, calls |-> <<>>] :
                    f \in {"compile_latex_to_pdf", "compile_latex_to_pdf_online"},
                    h \in CompileOutcomes, l \in LocalCompilers}
    /\ ret = Pending
    /\ reported = <<>>
    /\ HarnessIdle

CallCompileLatexToPdf ==
    /\ call.fn = "compile_latex_to_pdf"
    /\ ret = Pending
    /\ LET r == compile_latex_to_pdf(call.latex_code, call.http)
       IN  /\ ret' = r.ret
           /\ reported' = r.reported
           /\ call' = [call EXCEPT !.calls = r.calls]
    /\ UNCHANGED script_vars

CallCompileLatexToPdfOnline ==
    /\ call.fn = "compile_latex_to_pdf_online"
    /\ ret = Pending
    /\ LET r == compile_latex_to_pdf_online(call.latex_code, call.http)
       IN  /\ ret' = r.ret
           /\ reported' = r.reported
           /\ call' = [call EXCEPT !.calls = r.calls]
    /\ UNCHANGED script_vars

SpecCompile ==
    InitCompile /\ [][CallCompileLatexToPdf \/ CallCompileLatexToPdfOnline]_vars

(***************************************************************************)
(* Spec: the Streamlit script, lines 1331-1467.  A click starts a script   *)
(* run; the run goes through its stages in order, and st.session_state is  *)
(* what outlives it.                                                       *)
(***************************************************************************)
FlagSets ==
    {f \in [api_key : BOOLEAN, check_ats : BOOLEAN, auto_improve_ats : BOOLEAN,
            generate_docx : BOOLEAN, DOCX_AVAILABLE : BOOLEAN] :
        f.generate_docx => f.DOCX_AVAILABLE}      \* line 548: disabled otherwise

\* What the user pastes into the two text areas
LatexInputs ==
    {<<>>,
     <<"\\section{Experience}", "x", "\\section{Skills}", "x", EndDocument>>,
     <<"'''latex", NL, "\\section{Experience}", EndDocument, NL, "'''">>}
JobDescriptions == {<<>>, <<"Software", " ", "Engineer">>}

\* What the LLM answers in the stages of the script
ParseOutcomes ==
    {Raise("APIError"),
     Str(<<Prose>>),
     Str(<<FenceJson, Tok("\n"),
           JsonText(JObject(Restrict(ParseAnswer, {"experience", "skills"}))),
           Tok("\n"), Fence>>),
     Str(<<JsonText(JObject([experience |->
                               SubsectionData(<<"Experience">>, <<ItemCommand>>)]))>>),
     Str(<<JsonText(JObject(Restrict(ParseAnswer, {"experience", "awards"})))>>),
     Str(<<JsonText(JObject(EmptyDict))>>)}
OptimizeOutcomes ==
    {Raise("APIError"),
     Str(<<Prose>>),
     Str(<<JsonText(JObject([experience |->
                               SubsectionData(<<"Experience">>, <<ItemReworded>>),
                             skills |-> SkillsData]))>>),
     Str(<<JsonText(JObject([skills |-> SkillsData]))>>),
     Str(<<JsonText(JObject([experience |->
                               SubsectionData(<<"Experience">>, <<ItemCommand>>)]))>>)}
AtsOutcomes == {Raise("APIError"), Str(<<"ATS SCORE: 85">>)}

\* What the online compiler answers
HttpOutcomes ==
    {Raise("Timeout"), Raise("ConnectionError"),
     [status_code |-> 200, content |-> <<PdfMagic, "x">>,
      json |-> Raise("JSONDecodeError")],
     [status_code |-> 201, content |-> <<PdfMagic, "x">>,
      json |-> Raise("JSONDecodeError")],
     [status_code |-> 200, content |-> <<>>, json |-> Raise("JSONDecodeError")],
     [status_code |-> 200, content |-> <<"<html>">>,
      json |-> Raise("JSONDecodeError")],
     [status_code |-> 500, content |-> <<"{\"logs\": \"! Undefined control sequence\"}">>,
      json |-> JObject([logs |-> Str(<<"! Undefined control sequence">>)])]}

\* What a PDF library makes of the bytes
PageTexts == {None, Str(<<>>), Str(<<"resume", " ", "text">>)}
PdfOutcomes ==
    {Raise("PDFSyntaxError")} \cup {[pages |-> p] : p \in SeqsUpTo(PageTexts, MaxPages)}

\* lines 526-531, at the top of every script run
RunStart(f) ==
    IF f.api_key THEN <<>>
    ELSE <<Message("error", "Please provide your Gemini API key to continue", None)>>

\* The calls to the outside a function of the script has made
LogCalls(fn, calls) == [i \in 1..Len(calls) |-> [fn |-> fn, api |-> calls[i]]]

\* The page as its first script run leaves it
Init ==
    /\ call = <<>>
    /\ ret = None
    /\ flags \in FlagSets
    /\ reported = RunStart(flags)
    /\ pc = "idle"
    /\ session_state = EmptyDict
    /\ locals = EmptyDict
    /\ downloads = <<>>

\* lines 519-548: the user changes the key typed into the sidebar or a
\* checkbox; Streamlit runs the script again, no button pressed
ChangeSidebar ==
    /\ pc = "idle"
    /\ \E f \in FlagSets :
         /\ f # flags
         /\ f.DOCX_AVAILABLE = flags.DOCX_AVAILABLE
         /\ flags' = f
         /\ reported' = RunStart(f)
    /\ call' = <<>>
    /\ ret' = None
    /\ downloads' = <<>>
    /\ UNCHANGED <<pc, session_state, locals>>

\* An exception nothing catches ends the script run; Streamlit shows it
Uncaught(e) == Message("exception", "uncaught exception", [exc |-> e])

\* A click on "Process Resume" that keeps what earlier runs stored
ClickProcessResume_KeepsState ==
    /\ pc = "idle"
    /\ flags.api_key                                              \* line 1332
    /\ \E latex_input \in LatexInputs, job_description \in JobDescriptions :
         IF latex_input # <<>> /\ job_description # <<>>
         THEN /\ UNCHANGED session_state
              /\ locals' = [latex_input |-> latex_input,
                            job_description |-> job_description]
              /\ pc' = "parse"
              /\ reported' = RunStart(flags)
         ELSE /\ reported' =
                    RunStart(flags) \o
                    <<Message("warning",
                              "Please provide both LaTeX resume code and job description",
                              None)>>
              /\ UNCHANGED <<session_state, locals, pc>>
    /\ call' = <<>>
    /\ ret' = None
    /\ downloads' = <<>>
    /\ UNCHANGED flags

\* lines 1332, 1352-1354 and 1405-1406: the click on "Process Resume"
ClickProcessResume ==
    /\ pc = "idle"
    /\ flags.api_key                                              \* line 1332
    /\ \E latex_input \in LatexInputs, job_description \in JobDescriptions :
         IF latex_input # <<>> /\ job_description # <<>>
         THEN /\ session_state' = EmptyDict                       \* line 1354
              /\ locals' = [latex_input |-> latex_input,
                            job_description |-> job_description]
              /\ pc' = "parse"
              /\ reported' = RunStart(flags)
         ELSE /\ reported' =
                    RunStart(flags) \o
                    <<Message("warning",
                              "Please provide both LaTeX resume code and job description",
                              None)>>
              /\ UNCHANGED <<session_state, locals, pc>>
    /\ call' = <<>>
    /\ ret' = None
    /\ downloads' = <<>>
    /\ UNCHANGED flags

\* A parse stage that asks the LLM again when its answer was of no use
ParseStage_Retries ==
    /\ pc = "parse"
    /\ \E llm \in ParseOutcomes :
         LET r == parse_latex_into_structure(locals["latex_input"], llm)
         IN  /\ call' = call \o LogCalls("parse_latex_into_structure", r.calls)
             /\ ret' = r.ret
             /\ IF IsRaise(r.ret)
                THEN /\ reported' = reported \o r.reported \o <<Uncaught(r.ret.raise)>>
                     /\ pc' = "idle"
                     /\ locals' = EmptyDict
                ELSE IF r.ret = None
                THEN /\ reported' = reported \o r.reported
                     /\ pc' = IF Len(call) < 2 THEN "parse" ELSE "idle"
                     /\ locals' = IF Len(call) < 2 THEN locals ELSE EmptyDict
                ELSE /\ reported' = reported \o r.reported
                     /\ pc' = "optimize"
                     /\ locals' = Put(locals, "structured_resume", r.ret)
    /\ UNCHANGED <<flags, session_state, downloads>>

\* lines 1356-1359 and 1403-1404.  A StructuredResume is truthy whatever its
\* fields hold.
ParseStage ==
    /\ pc = "parse"
    /\ \E llm \in ParseOutcomes :
         LET r == parse_latex_into_structure(locals["latex_input"], llm)
         IN  /\ call' = call \o LogCalls("parse_latex_into_structure", r.calls)
             /\ ret' = r.ret
             /\ IF IsRaise(r.ret)
                THEN /\ reported' = reported \o r.reported \o <<Uncaught(r.ret.raise)>>
                     /\ pc' = "idle"
                     /\ locals' = EmptyDict
                ELSE IF r.ret = None
                THEN /\ reported' = reported \o r.reported
                           \o <<Message("error", "Failed to parse resume structure", None)>>
                     /\ pc' = "idle"
                     /\ locals' = EmptyDict
                ELSE /\ reported' = reported \o r.reported
                     /\ pc' = "optimize"
                     /\ locals' = Put(locals, "structured_resume", r.ret)
    /\ UNCHANGED <<flags, session_state, downloads>>

\* lines 1365-1367
OptimizeStage ==
    /\ pc = "optimize"
    /\ \E llm \in OptimizeOutcomes :
         LET r == optimize_content_lines(locals["structured_resume"], llm)
         IN  /\ call' = call \o LogCalls("optimize_content_lines", r.calls)
             /\ ret' = r.ret
             /\ IF IsRaise(r.ret)
                THEN /\ reported' = reported \o r.reported \o <<Uncaught(r.ret.raise)>>
                     /\ pc' = "idle"
                     /\ locals' = EmptyDict
                ELSE /\ reported' = reported \o r.reported
                     /\ pc' = "serialize"
                     /\ locals' = Put(Put(locals,
                                      "structured_resume", r.structured_resume),
                                      "optimized_resume", r.ret)
    /\ UNCHANGED <<flags, session_state, downloads>>

\* lines 1369-1388
SerializeStage ==
    /\ pc = "serialize"
    /\ LET final_latex == structure_to_latex(locals["optimized_resume"],
                                             Str(locals["latex_input"]))
       IN  IF IsRaise(final_latex)
           THEN /\ reported' = Append(reported, Uncaught(final_latex.raise))
                /\ ret' = final_latex
                /\ pc' = "idle"
                /\ locals' = EmptyDict
                /\ UNCHANGED <<session_state, downloads>>
           ELSE LET cleaned_latex == clean_latex_output(final_latex.str)
                IN  /\ session_state' =
                          Put(Put(Put(Put(session_state,
                              "generated_latex", Str(cleaned_latex)),
                              "structured_resume", locals["optimized_resume"]),
                              "original_latex", Str(locals["latex_input"])),
                              "job_description", Str(locals["job_description"]))
                    /\ ret' = Str(cleaned_latex)
                    /\ downloads' = <<[file_name |-> <<"tailored_resume", ".tex">>,
                                       data |-> Str(cleaned_latex)]>>
                    /\ IF flags.check_ats
                       THEN /\ pc' = "compile"
                            /\ locals' = Put(locals, "final_latex", final_latex.str)
                       ELSE /\ pc' = "idle"
                            /\ locals' = EmptyDict
                    /\ UNCHANGED reported
    /\ UNCHANGED <<call, flags>>

\* A CompileStage that gives up the stored result when compilation fails
CompileStage_DropsResult ==
    /\ pc = "compile"
    /\ \E http \in HttpOutcomes :
         LET r == compile_latex_to_pdf(locals["final_latex"], http)
         IN  /\ call' = call \o LogCalls("compile_latex_to_pdf", r.calls)
             /\ ret' = r.ret
             /\ reported' = reported \o r.reported
             /\ IF r.ret # None
                THEN /\ pc' = "extract"
                     /\ locals' = Put(locals, "pdf_bytes", r.ret.str)
                     /\ UNCHANGED session_state
                ELSE /\ pc' = "idle"
                     /\ locals' = EmptyDict
                     /\ session_state' =
                            Put(EmptyDict, "ats_analysis",
                                Str(<<"PDF compilation failed, so ATS analysis could not be performed on the final output.">>))
    /\ UNCHANGED <<flags, downloads>>

\* lines 1390-1391 and 1397-1402
CompileStage ==
    /\ pc = "compile"
    /\ \E http \in HttpOutcomes :
         LET r == compile_latex_to_pdf(locals["final_latex"], http)
         IN  /\ call' = call \o LogCalls("compile_latex_to_pdf", r.calls)
             /\ ret' = r.ret
             /\ reported' = reported \o r.reported
             /\ IF r.ret # None
                THEN /\ pc' = "extract"
                     /\ locals' = Put(locals, "pdf_bytes", r.ret.str)
                     /\ UNCHANGED session_state
                ELSE /\ pc' = "idle"
                     /\ locals' = EmptyDict
                     /\ session_state' =
                            Put(session_state, "ats_analysis",
                                Str(<<"PDF compilation failed, so ATS analysis could not be performed on the final output.">>))
    /\ UNCHANGED <<flags, downloads>>

\* lines 1392-1393, 1395-1396 and 1400-1402
ExtractStage ==
    /\ pc = "extract"
    /\ \E plumber \in PdfOutcomes, pypdf \in PdfOutcomes :
         LET r == extract_text_from_pdf(locals["pdf_bytes"], plumber, pypdf)
         IN  /\ call' = call \o LogCalls("extract_text_from_pdf", r.calls)
             /\ ret' = r.ret
             /\ reported' = reported \o r.reported
             /\ IF r.ret # None /\ r.ret.str # <<>>
                THEN /\ pc' = "score"
                     /\ locals' = Put(locals, "resume_text", r.ret.str)
                     /\ UNCHANGED session_state
                ELSE /\ pc' = "idle"
                     /\ locals' = EmptyDict
                     /\ session_state' =
                            Put(session_state, "ats_analysis",
                                Str(<<"Could not extract text from PDF to perform ATS analysis.">>))
    /\ UNCHANGED <<flags, downloads>>

\* lines 1394 and 1400-1402
ScoreStage ==
    /\ pc = "score"
    /\ \E llm \in AtsOutcomes :
         LET r == check_ats_compatibility(locals["resume_text"],
                                          locals["job_description"], llm)
         IN  /\ call' = call \o LogCalls("check_ats_compatibility", r.calls)
             /\ ret' = r.ret
             /\ session_state' = Put(session_state, "ats_analysis", r.ret)
    /\ pc' = "idle"
    /\ locals' = EmptyDict
    /\ UNCHANGED <<reported, flags, downloads>>

\* line 1434
ImprovedMessage ==
    Message("success", "ATS-Improved version generated! Select it above to download.",
            None)

\* lines 1409 and 1426-1428: the click on "Generate ATS-Improved Version"
ClickImprove ==
    /\ pc = "idle"
    /\ "generated_latex" \in DOMAIN session_state
    /\ "ats_analysis" \in DOMAIN session_state
    /\ flags.auto_improve_ats
    /\ pc' = "improve"
    /\ reported' = RunStart(flags)
    /\ call' = <<>>
    /\ ret' = None
    /\ downloads' = <<>>
    /\ UNCHANGED <<flags, session_state, locals>>

\* lines 1429-1435.  st.success (line 1434) is shown before st.rerun()
\* (line 1435) starts the next script run.
ImproveStage ==
    /\ pc = "improve"
    /\ \E llm \in OptimizeOutcomes :
         LET r == apply_ats_feedback(session_state["structured_resume"], llm)
             improved_latex == structure_to_latex(r.ret, session_state["original_latex"])
             handed_back == Put(session_state, "structured_resume", r.structured_resume)
         IN  /\ call' = call \o LogCalls("apply_ats_feedback", r.calls)
             /\ IF IsRaise(improved_latex)
                THEN /\ reported' = reported \o r.reported
                                    \o <<Uncaught(improved_latex.raise)>>
                     /\ ret' = improved_latex
                     /\ session_state' = handed_back
                ELSE /\ reported' = reported \o r.reported \o <<ImprovedMessage>>
                     /\ ret' = Str(clean_latex_output(improved_latex.str))
                     /\ session_state' =
                           Put(Put(handed_back,
                               "improved_latex", Str(clean_latex_output(improved_latex.str))),
                               "improved_structured_resume", r.ret)
    /\ pc' = "idle"
    /\ UNCHANGED <<flags, locals, downloads>>

\* lines 1413-1423: the version the radio button selects
VersionChoices ==
    IF "improved_latex" \in DOMAIN session_state
    THEN {"Initial Tailored Version", "ATS-Improved Version"}
    ELSE {"Initial Tailored Version"}
FilenamePrefix(version_choice) ==
    IF version_choice = "ATS-Improved Version" THEN "ats_improved_resume"
    ELSE "tailored_resume"

\* lines 1409-1423 and 1441-1442: the click on "Compile & Download PDF"
ClickCompilePdf ==
    /\ pc = "idle"
    /\ "generated_latex" \in DOMAIN session_state
    /\ \E version_choice \in VersionChoices :
         locals' = [latex_to_compile |->
                        IF version_choice = "ATS-Improved Version"
                        THEN session_state["improved_latex"]
                        ELSE session_state["generated_latex"],
                    filename_prefix |-> FilenamePrefix(version_choice)]
    /\ pc' = "download_pdf"
    /\ reported' = RunStart(flags)
    /\ call' = <<>>
    /\ ret' = None
    /\ downloads' = <<>>
    /\ UNCHANGED <<flags, session_state>>

\* lines 1443-1453
DownloadPdfStage ==
    /\ pc = "download_pdf"
    /\ \E http \in HttpOutcomes :
         LET r == compile_latex_to_pdf(locals["latex_to_compile"].str, http)
         IN  /\ call' = call \o LogCalls("compile_latex_to_pdf", r.calls)
             /\ ret' = r.ret
             /\ IF r.ret # None
                THEN /\ downloads' = <<[file_name |-> <<locals["filename_prefix"], ".pdf">>,
                                        data |-> r.ret]>>
                     /\ reported' = reported \o r.reported
                ELSE /\ downloads' = <<>>
                     /\ reported' = reported \o r.reported
                           \o <<Message("error", "PDF compilation failed", None)>>
    /\ pc' = "idle"
    /\ locals' = EmptyDict
    /\ UNCHANGED <<flags, session_state>>

\* lines 1409-1423 and 1456-1467: the click on "Generate & Download DOCX"
ClickGenerateDocx ==
    /\ pc = "idle"
    /\ "generated_latex" \in DOMAIN session_state
    /\ flags.generate_docx /\ flags.DOCX_AVAILABLE
    /\ \E version_choice \in VersionChoices :
         LET structured_data ==
                IF /\ "improved_structured_resume" \in DOMAIN session_state
                   /\ FilenamePrefix(version_choice) = "ats_improved_resume"
                THEN session_state["improved_structured_resume"]
                ELSE session_state["structured_resume"]
             docx_bytes == structure_to_docx(structured_data, flags.DOCX_AVAILABLE)
         IN  /\ ret' = docx_bytes
             /\ downloads' =
                   IF docx_bytes # None
                   THEN <<[file_name |-> <<FilenamePrefix(version_choice), ".docx">>,
                           data |-> docx_bytes]>>
                   ELSE <<>>
    /\ reported' = RunStart(flags)
    /\ call' = <<>>
    /\ UNCHANGED <<flags, pc, session_state, locals>>

Next ==
    \/ ChangeSidebar
    \/ ClickProcessResume
    \/ ParseStage
    \/ OptimizeStage
    \/ SerializeStage
    \/ CompileStage
    \/ ExtractStage
    \/ ScoreStage
    \/ ClickImprove
    \/ ImproveStage
    \/ ClickCompilePdf
    \/ DownloadPdfStage
    \/ ClickGenerateDocx

Spec == Init /\ [][Next]_vars

(***************************************************************************)
(* Claims about preserve mode (SpecPreserve)                               *)
(***************************************************************************)
FieldOf(title) ==
    CASE title = "Experience" -> "experience"
      [] title = "Projects" -> "projects"
      [] title = "Skills" -> "skills"

\* The sections preserve mode covers, and those of them R updates
CoveredTitles == {"Experience", "Projects"}
Updated(resume, title) == HasSubsections(resume, FieldOf(title))

PreserveCallDone ==
    /\ call.fn = "structure_to_latex"
    /\ call.original # None
    /\ call.original.str # <<>>
    /\ IsStr(ret)

MarkerPositions(doc, title) == {i \in 1..Len(doc) : doc[i] \in MarkersOf(title)}

\* The section of `title` in doc: its heading marker is the first one, at i, and
\* its body runs to the next \section or \end{document} marker, at j; the body
\* doc[i+1 .. j-1] may be empty.
HasSection(doc, title) ==
    /\ MarkerPositions(doc, title) # {}
    /\ \E j \in (Min(MarkerPositions(doc, title)) + 1)..Len(doc) :
            doc[j] \in BoundaryTokens

BodyReplaced(doc, title, new_body) ==
    LET i == Min(MarkerPositions(doc, title))
        j == Min({k \in (i + 1)..Len(doc) : doc[k] \in BoundaryTokens})
    IN  SubSeq(doc, 1, i) \o <<NL>> \o new_body \o SubSeq(doc, j, Len(doc))

\* What the claim asks of preserve mode, for a document that has the sections
\* R updates: each body replaced by the text the replacement inserts
ExpectedPreserve(resume, doc) ==
    LET d1 == IF Updated(resume, "Experience")
              THEN BodyReplaced(doc, "Experience",
                                TemplateText(ExperienceBody(resume.experience)))
              ELSE doc
    IN  IF Updated(resume, "Projects")
        THEN BodyReplaced(d1, "Projects", TemplateText(ProjectsBody(resume.projects)))
        ELSE d1

\* C1: in preserve mode every covered section's old body, empty or not, is
\* removed and replaced by the newly rendered body, and all other text of the
\* original document is unchanged.
C1_PreserveReplacesOnlyBodies ==
    (/\ PreserveCallDone
     /\ \A title \in CoveredTitles :
            Updated(call.resume, title) => HasSection(call.original.str, title))
    => ret.str = ExpectedPreserve(call.resume, call.original.str)

AppendedBody(resume, title) ==
    IF title = "Experience" THEN ExperienceBody(resume.experience)
    ELSE ProjectsBody(resume.projects)

\* The heading of `title` stands at k, followed by its rendered body, with a
\* closing marker after it
AppendedAt(out, k, resume, title) ==
    LET block == <<SectionMarker(title), NL>> \o AppendedBody(resume, title)
    IN  /\ k + Len(block) - 1 <= Len(out)
        /\ SubSeq(out, k, k + Len(block) - 1) = block
        /\ \E e \in (k + Len(block))..Len(out) : out[e] = EndDocument

\* C8: a covered section that R updates and whose heading marker does not
\* occur in the original document is in the output exactly once, heading and
\* rendered body, before the closing marker, whatever the document.
C8_MissingSectionAppendedOnce ==
    PreserveCallDone =>
        \A title \in CoveredTitles :
            (/\ Updated(call.resume, title)
             /\ MarkerPositions(call.original.str, title) = {})
            => /\ Cardinality(MarkerPositions(ret.str, title)) = 1
               /\ AppendedAt(ret.str, Min(MarkerPositions(ret.str, title)),
                             call.resume, title)

\* C9: in preserve mode the output holds no section whose field is unset in R,
\* even when the original document holds one.
C9_PreserveOmitsUnsetSections ==
    PreserveCallDone =>
        \A title \in {"Experience", "Projects", "Skills"} :
            call.resume[FieldOf(title)] = None
            => MarkerPositions(ret.str, title) = {}

(***************************************************************************)
(* Claims about the optimizers (SpecOptimize)                              *)
(***************************************************************************)
OptimizerCallDone ==
    /\ call.fn \in {"optimize_content_lines", "apply_ats_feedback"}
    /\ ret # Pending

\* The shape of a resume: which sections are present, and how many
\* subsections each has
Shape(resume) ==
    [n \in SectionNames |->
        IF resume[n] = None THEN -1 ELSE Len(resume[n].subsections)]

\* The shape of the resume a JSON value describes
ShapeOfValue(value) ==
    [n \in SectionNames |->
        IF DOMAIN value # {"obj"} THEN -1
        ELSE IF n \notin DOMAIN value.obj THEN -1
        ELSE IF value.obj[n] = None THEN -1
        ELSE Len(Get(value.obj[n], "subsections", <<>>))]

\* The response is valid JSON of another shape than the input resume
ShapeMismatch ==
    /\ IsStr(call.llm)
    /\ ~IsRaise(json_loads(OptimizerJsonText(call.llm.str)))
    /\ ShapeOfValue(json_loads(OptimizerJsonText(call.llm.str)))
            # Shape(call.structured_resume)

\* C2: when the response of an optimizer is valid JSON whose shape differs
\* from the input resume (other sections present, or another number of
\* subsections in a section), the optimizer returns the input resume.
C2_ShapeMismatchFallsBack ==
    (OptimizerCallDone /\ ShapeMismatch) => ret = call.structured_resume

(***************************************************************************)
(* Claims about the parser (SpecParse)                                     *)
(***************************************************************************)
ParseCallDone ==
    /\ call.fn = "parse_latex_into_structure"
    /\ ret # Pending

\* The LLM answered a text that is not valid JSON once the fences are gone
NotJson(llm) == IsStr(llm) /\ IsRaise(json_loads(ParserJsonText(llm.str)))

\* Some message shown carries the raw text of the response
CarriesRawText(text) ==
    \E i \in 1..Len(reported) :
        /\ DOMAIN reported[i].detail = {"raw"}
        /\ reported[i].detail.raw = text

\* C5: when the LLM returns text that is not valid JSON after fence stripping,
\* the parser shows an error carrying the raw text of the response and returns
\* None: no StructuredResume, no exception.
C5_NonJsonIsReportedFailure ==
    (ParseCallDone /\ NotJson(call.llm))
    => (ret = None /\ CarriesRawText(call.llm.str))

\* C5 happens: prose before the JSON text, refused and shown
C5_Witness ==
    /\ ParseCallDone
    /\ NotJson(call.llm)
    /\ Len(call.llm.str) = 3
    /\ call.llm.str[1] = Prose
    /\ ret = None
    /\ CarriesRawText(call.llm.str)

\* C6: for an empty LaTeX source the parser yields a reported parse failure,
\* whatever the LLM answers; it returns no StructuredResume.
C6_EmptySourceIsParseFailure ==
    (ParseCallDone /\ call.latex_code = <<>>)
    => (ret = None /\ reported # <<>>)

\* The response is a JSON object whose section data are objects
ValidObject(llm) ==
    /\ IsStr(llm)
    /\ DOMAIN json_loads(ParserJsonText(llm.str)) = {"obj"}
    /\ \A k \in DOMAIN json_loads(ParserJsonText(llm.str)).obj :
            json_loads(ParserJsonText(llm.str)).obj[k] # None

\* C10: for a valid JSON response every top-level key that names a field of
\* StructuredResume yields that field, its lines and subsections those of the
\* response, and every field whose key is missing is None.
C10_ParserKeyMapping ==
    (ParseCallDone /\ ValidObject(call.llm))
    => LET data == json_loads(ParserJsonText(call.llm.str)).obj
       IN  /\ DOMAIN ret = SectionNames
           /\ \A n \in SectionNames :
                IF n \in DOMAIN data
                THEN /\ ret[n] # None
                     /\ ret[n].lines = Get(data[n], "lines", <<>>)
                     /\ ret[n].subsections = Get(data[n], "subsections", <<>>)
                ELSE ret[n] = None

\* The response is a JSON object of sections, one key of it no field of
\* StructuredResume
HasUnknownKey(llm) ==
    /\ ValidObject(llm)
    /\ ~(DOMAIN json_loads(ParserJsonText(llm.str)).obj \subseteq SectionNames)

\* C11: when the JSON response holds a top-level key that is no section name,
\* the parser still succeeds: it reports nothing and returns the
\* StructuredResume built from the known keys alone.
C11_UnknownKeysIgnored ==
    (ParseCallDone /\ HasUnknownKey(call.llm))
    => LET data == json_loads(ParserJsonText(call.llm.str)).obj
           known == Restrict(data, DOMAIN data \cap SectionNames)
       IN  /\ ret = StructuredResume(ResumeData(known))
           /\ reported = <<>>

(***************************************************************************)
(* Claims about the fences of a response (SpecParse, SpecOptimize)         *)
(***************************************************************************)
\* A JSON document between an opening fence line and a closing fence
FencedJson(value) ==
    {<<FenceJson, Tok("\n"), JsonText(value), Tok("\n"), Fence>>,
     <<Fence, Tok("\n"), JsonText(value), Tok("\n"), Fence>>}

LlmCallDone ==
    /\ call.fn \in {"parse_latex_into_structure", "optimize_content_lines",
                    "apply_ats_feedback"}
    /\ ret # Pending

\* What the function of the call makes of another response
ResultOn(c, llm) ==
    CASE c.fn = "parse_latex_into_structure" ->
            parse_latex_into_structure(c.latex_code, llm)
      [] c.fn = "optimize_content_lines" ->
            optimize_content_lines(c.structured_resume, llm)
      [] c.fn = "apply_ats_feedback" ->
            apply_ats_feedback(c.structured_resume, llm)

\* C12: for the parser and the two optimizers, a valid JSON document between
\* code fences (an opening fence line, with or without the word json, and a
\* closing fence) gives the result the same document gives without fences.
C12_FencesAreStripped ==
    \A value \in ParseValues \cup OptimizerValues :
        (LlmCallDone /\ IsStr(call.llm) /\ call.llm.str \in FencedJson(value))
        => LET bare == ResultOn(call, Str(<<JsonText(value)>>))
           IN  /\ ret = bare.ret
               /\ (reported = <<>>) <=> (bare.reported = <<>>)

(***************************************************************************)
(* Claims about the resume a function is handed (SpecResumeUsers)          *)
(***************************************************************************)
Optimizers == {"optimize_content_lines", "apply_ats_feedback"}

\* The StructuredResume argument of a call
ResumeArgument(c) ==
    IF c.fn \in Optimizers THEN c.structured_resume ELSE c.resume

\* The call returns in this step
CallReturns == ret = Pending /\ ret' # Pending

\* C13: a call of an optimizer or of a serializer leaves the resume it is
\* handed with the sections, lines and subsections it had, whatever the LLM
\* returns; and when an optimizer accepts the response (no error shown), the
\* resume it returns is a new object, not its argument.
C13_InputsAreNotMutated ==
    [][CallReturns
       => /\ ResumeArgument(call') = ResumeArgument(call)
          /\ (call.fn \in Optimizers /\ reported' = <<>> /\ ~IsRaise(ret'))
             => ~ResultOn(call, call.llm).same_object]_vars

\* An optimizer has accepted a response that rewords a resume of two sections
C13_Witness ==
    /\ OptimizerCallDone
    /\ call.structured_resume = ResumeTwo
    /\ reported = <<>>
    /\ ~IsRaise(ret)
    /\ ret # ResumeTwo

(***************************************************************************)
(* Claims about the template serializers (SpecFallback)                    *)
(***************************************************************************)
FallbackCallDone ==
    /\ call.fn \in {"structure_to_latex", "structure_to_docx"}
    /\ ret # Pending
    /\ ret # None

\* The line that opens the block of a section in the fallback LaTeX
LatexBlockStart(name) ==
    CASE name = "contact" -> "\\begin{center}"
      [] name = "summary" -> "\\section{Professional Summary}"
      [] name = "education" -> "\\section{Education}"
      [] name = "experience" -> "\\section{Experience}"
      [] name = "projects" -> "\\section{Projects}"
      [] name = "certifications" -> "\\section{Certifications \\& Achievements}"
      [] name = "skills" -> "\\section{Skills}"

\* The heading that opens the block of a section in the DOCX document
DocxTitle(name) ==
    CASE name = "summary" -> <<"Professional Summary">>
      [] name = "education" -> <<"Education">>
      [] name = "experience" -> <<"Experience">>
      [] name = "projects" -> <<"Projects">>
      [] name = "certifications" -> <<"Certifications & Achievements">>
      [] name = "skills" -> <<"Skills">>

\* The output holds a block for the section: in the DOCX document the
\* contact block has no heading, it is the centred paragraphs
HasBlock(name) ==
    IF call.fn = "structure_to_latex"
    THEN Contains(ret.str, LatexBlockStart(name))
    ELSE \E i \in 1..Len(ret.docx) :
            IF name = "contact" THEN ret.docx[i].align = "CENTER"
            ELSE /\ ret.docx[i].kind = "heading"
                 /\ ret.docx[i].runs[1].text = DocxTitle(name)

\* The output for a resume without any section
BareOutput ==
    IF call.fn = "structure_to_latex"
    THEN Str(JoinLines(PreambleLines \o << <<EndDocument>> >>))
    ELSE [docx |-> <<>>]

\* C7: the fallback LaTeX and the DOCX document hold a block for a section
\* only if the section's field is set; an unset section contributes nothing,
\* so a resume with no section set yields the bare document.
C7_UnsetSectionsAreOmitted ==
    FallbackCallDone =>
        /\ \A name \in SectionNames :
                call.resume[name] = None => ~HasBlock(name)
        /\ (\A name \in SectionNames : call.resume[name] = None) => ret = BareOutput

\* C7 happens: a DOCX document with the Experience block and no Summary
C7_Witness ==
    /\ FallbackCallDone
    /\ call.fn = "structure_to_docx"
    /\ call.resume.summary = None
    /\ call.resume.experience # None
    /\ HasBlock("experience")
    /\ ~HasBlock("summary")

(***************************************************************************)
(* Claims about the script (Spec)                                          *)
(***************************************************************************)
\* The parse or the optimize stage of the current run has failed: its
\* handler has shown its error
RequiredStageFailed ==
    \E i \in 1..Len(reported) :
        reported[i].text \in {"Error parsing LaTeX into new structure",
                              "Error optimizing resume content"}

\* C3: after a failure of the parse or the optimize stage no later stage of
\* the request runs: nothing is serialized and stored, compiled or scored.
C3_RequiredFailureAborts ==
    RequiredStageFailed =>
        /\ pc \notin {"compile", "extract", "score"}
        /\ "generated_latex" \notin DOMAIN session_state

\* C4: once the generated LaTeX is stored, every step but the start of a new
\* Process Resume request (the session is cleared, line 1354) leaves it
\* stored and unchanged: whatever the PDF compilation, the text extraction,
\* the ATS scoring or the DOCX export do, in the request or in a later
\* download.
C4_OptionalStagesKeepResult ==
    [][("generated_latex" \in DOMAIN session_state /\ ~(pc = "idle" /\ pc' = "parse"))
       => /\ "generated_latex" \in DOMAIN session_state'
          /\ session_state'["generated_latex"] = session_state["generated_latex"]]_vars

\* C4 happens: the compilation of the request failed, a later PDF download
\* failed too, and the generated LaTeX is stored
C4_Witness ==
    /\ pc = "idle"
    /\ "generated_latex" \in DOMAIN session_state
    /\ "ats_analysis" \in DOMAIN session_state
    /\ session_state["ats_analysis"] =
          Str(<<"PDF compilation failed, so ATS analysis could not be performed on the final output.">>)
    /\ \E i \in 1..Len(reported) : reported[i].text = "PDF compilation failed"

\* The calls of the current run that a function made to the LLM
LlmCalls(log, fn) ==
    Cardinality({i \in 1..Len(log) :
                    log[i].fn = fn /\ log[i].api = "generate_content"})

LlmFunctions ==
    {"parse_latex_into_structure", "optimize_content_lines",
     "check_ats_compatibility", "apply_ats_feedback"}

\* A message of the current run has this text
Shown(text) == \E i \in 1..Len(reported) : reported[i].text = text

\* C14: within one run of the script no LLM-backed function calls the LLM
\* twice; the parse stage of a Process Resume request issues the parse call
\* once, the optimize stage (reached when parsing succeeded) the optimize
\* call once, the remaining stages have these two calls behind them, the
\* score stage issues the ATS call once, and a run of the ATS improvement
\* issues the feedback call once and no other.
C14_NoLlmRetries ==
    [][/\ \A fn \in LlmFunctions : LlmCalls(call', fn) <= 1
       /\ pc = "parse"
          => /\ LlmCalls(call', "parse_latex_into_structure") = 1
             /\ LlmCalls(call', "optimize_content_lines") = 0
       /\ pc = "optimize"
          => /\ LlmCalls(call', "parse_latex_into_structure") = 1
             /\ LlmCalls(call', "optimize_content_lines") = 1
       /\ pc \in {"serialize", "compile", "extract", "score"}
          => /\ LlmCalls(call', "parse_latex_into_structure") = 1
             /\ LlmCalls(call', "optimize_content_lines") = 1
       /\ pc = "score" => LlmCalls(call', "check_ats_compatibility") = 1
       /\ pc = "improve"
          => call' = <<[fn |-> "apply_ats_feedback", api |-> "generate_content"]>>
      ]_vars

\* A request whose optimizer got an answer of no use has run to its end, ATS
\* scoring included, each call issued once
C14_Witness ==
    /\ pc = "idle"
    /\ Shown("Error optimizing resume content")
    /\ LlmCalls(call, "parse_latex_into_structure") = 1
    /\ LlmCalls(call, "optimize_content_lines") = 1
    /\ LlmCalls(call, "check_ats_compatibility") = 1

\* C15: while no API key is configured, the error is shown and no
\* LLM-dependent operation runs or has run in the current script run: the
\* script is in none of the parse, optimize, score and improve stages.
C15_CredentialGate ==
    ~flags.api_key
    => /\ Shown("Please provide your Gemini API key to continue")
       /\ pc \notin {"parse", "optimize", "score", "improve"}
       /\ \A i \in 1..Len(call) : call[i].api # "generate_content"

\* The last function the run called to the outside is extract_text_from_pdf
ExtractReturned ==
    /\ call # <<>>
    /\ call[Len(call)].fn = "extract_text_from_pdf"

Called(api) == \E i \in 1..Len(call) : call[i].api = api

\* C17: extract_text_from_pdf calls PyPDF2 exactly when pdfplumber raised
\* (the warning tells); when pdfplumber did not raise, a text is returned and
\* PyPDF2 is not called; the error of the double failure is shown exactly
\* when None is returned, never an empty string; and the script then skips
\* ATS scoring for the run.
C17_TwoTierExtraction ==
    ExtractReturned
    => /\ Called("pdfplumber.open")
       /\ Called("PyPDF2.PdfReader") <=> Shown("Could not parse PDF with pdfplumber")
       /\ ~Shown("Could not parse PDF with pdfplumber") => IsStr(ret)
       /\ Shown("Failed to extract text from PDF with all methods")
            => Shown("Could not parse PDF with pdfplumber")
       /\ Shown("Failed to extract text from PDF with all methods") <=> ret = None
       /\ ret = None
            => /\ pc = "idle"
               /\ LlmCalls(call, "check_ats_compatibility") = 0
               /\ session_state["ats_analysis"] =
                     Str(<<"Could not extract text from PDF to perform ATS analysis.">>)

\* Both libraries have failed on the PDF of a request
C17_Witness ==
    /\ ExtractReturned
    /\ Called("PyPDF2.PdfReader")
    /\ Shown("Failed to extract text from PDF with all methods")
    /\ ret = None
    /\ pc = "idle"

(***************************************************************************)
(* Claims about PDF compilation (SpecCompile)                              *)
(***************************************************************************)
CompileCallDone ==
    /\ call.fn \in {"compile_latex_to_pdf", "compile_latex_to_pdf_online"}
    /\ ret # Pending

\* The answer is a PDF: status 200 or 201 and a body that starts with %PDF
IsPdfAnswer(http) ==
    /\ ~IsRaise(http)
    /\ http.status_code \in {200, 201}
    /\ http.content # <<>>
    /\ http.content[1] = "%PDF"

HasLogs(http) ==
    /\ ~IsRaise(http.json)
    /\ DOMAIN http.json = {"obj"}
    /\ "logs" \in DOMAIN http.json.obj

\* The logs as shown: a text between b' and ' without these
ShownLogs(logs) ==
    IF Len(logs.str) >= 2 /\ logs.str[1] = "b'" /\ logs.str[Len(logs.str)] = "'"
    THEN Str(SubSeq(logs.str, 2, Len(logs.str) - 1))
    ELSE logs

\* C16: the body is returned as the PDF exactly for status 200 or 201 with
\* a body starting with %PDF; every other outcome returns None and shows one
\* diagnostic, for a response the logs field of its JSON body when there is
\* one (shown without a b'...' wrapper) and the raw body text otherwise.
C16_CompileAcceptance ==
    CompileCallDone
    => LET http == call.http
       IN  IF IsPdfAnswer(http) THEN ret = Str(http.content) /\ reported = <<>>
           ELSE /\ ret = None
                /\ Len(reported) = 1
                /\ reported[1].level = "error"
                /\ ~IsRaise(http)
                   => reported[1].detail =
                         IF HasLogs(http)
                         THEN [status_code |-> http.status_code,
                               logs |-> ShownLogs(http.json.obj["logs"])]
                         ELSE [status_code |-> http.status_code,
                               raw |-> http.content]

\* C18: a compilation request first runs the command-line compiler when the
\* host has one, and calls the online service only when the host has none or
\* its run left no output file.
C18_LocalThenRemote ==
    (CompileCallDone /\ call.fn = "compile_latex_to_pdf")
    => /\ call.pdflatex # "absent"
          => call.calls # <<>> /\ call.calls[1] = "subprocess.run"
       /\ (\E i \in 1..Len(call.calls) : call.calls[i] = "requests.post")
          => call.pdflatex \in {"absent", "leaves no output file"}

(***************************************************************************)
(* Claims about the sanitizer (SpecEscape)                                 *)
(***************************************************************************)
EscapeCallDone ==
    /\ call.fn = "escape_latex_characters"
    /\ ret # Pending

\* The call was handed a str, and has returned
EscapeTextDone == EscapeCallDone /\ IsStr(call.text)

\* The escaped form of one character; any other token stands for itself
EscapedForm(c) ==
    CASE c \in {"&", "%", "$", "#", "_", "{", "}"} -> <<"\\", c>>
      [] c = "^" -> <<"\\", "textasciicircum", "{", "}">>
      [] c = "~" -> <<"\\", "textasciitilde", "{", "}">>
      [] OTHER -> <<c>>

\* A text with each of its characters in its escaped form
EachEscaped(text) == Flatten([i \in 1..Len(text) |-> EscapedForm(text[i])])

\* The special character at position i of an escaped text is escaped: a
\* backslash stands before it, or it is a brace of the {} that ends the
\* escaped form of ^ or ~
EscapedAt(out, i) ==
    \/ i > 1 /\ out[i - 1] = "\\"
    \/ /\ out[i] = "{"
       /\ i > 2
       /\ out[i - 1] \in {"textasciicircum", "textasciitilde"}
       /\ out[i - 2] = "\\"
    \/ /\ out[i] = "}"
       /\ i > 3
       /\ out[i - 1] = "{"
       /\ out[i - 2] \in {"textasciicircum", "textasciitilde"}
       /\ out[i - 3] = "\\"

\* C19: for a text made of the special characters only, the sanitizer
\* replaces every character by its own escaped form, no substitution touching
\* what an earlier one produced, and the result holds no unescaped special
\* character.
C19_SpecialCharsEscapedOnce ==
    (EscapeTextDone /\ \A i \in 1..Len(call.text.str) : call.text.str[i] \in SpecialChars)
    => /\ ret = Str(EachEscaped(call.text.str))
       /\ \A i \in 1..Len(ret.str) :
             ret.str[i] \in SpecialChars => EscapedAt(ret.str, i)

\* A brace, a caret and a tilde have been escaped in one text
C19_Witness ==
    /\ EscapeTextDone
    /\ call.text = Str(<<"{", "^", "~">>)
    /\ ret = Str(<<"\\", "{", "\\", "textasciicircum", "{", "}",
                   "\\", "textasciitilde", "{", "}">>)

\* The names of the allow-list
AllowList ==
    {"textbf", "textit", "underline", "hfill", "textasciicircum", "textasciitilde"}

\* Position i starts a command token whose name is not on the allow-list
DisallowedCommandAt(text, i) ==
    /\ text[i] = "\\"
    /\ i < Len(text)
    /\ text[i + 1] \in EscapeWords
    /\ text[i + 1] \notin AllowList

\* The text without its command tokens that are not on the allow-list
WithoutDisallowed(text) ==
    Flatten([i \in 1..Len(text) |->
               IF DisallowedCommandAt(text, i)
                  \/ (i > 1 /\ DisallowedCommandAt(text, i - 1))
               THEN <<>> ELSE <<text[i]>>])

\* C20: the sanitizer removes every command token (a backslash and the
\* letters after it) whose name is not exactly a name of the allow-list, a
\* longer name that begins with an allow-listed one included, and keeps the
\* command tokens whose name is on the list; the rest of the text is escaped
\* as usual.
C20_CommandsOffTheListRemoved ==
    EscapeTextDone => ret = Str(EachEscaped(WithoutDisallowed(call.text.str)))

\* C21: escape_latex_characters(None) returns None and
\* escape_latex_characters("") returns the empty string, and neither call
\* raises.
C21_NoTextReturnedUnchanged ==
    (EscapeCallDone /\ call.text \in {None, Str(<<>>)})
    => ret = call.text /\ ~IsRaise(ret)

\* The sanitizer was handed None and has returned None
C21_Witness ==
    /\ EscapeCallDone
    /\ call.text = None
    /\ ret = None

(***************************************************************************)
(* Claims about the sanitizer in the serializer (SpecRender)               *)
(***************************************************************************)
RenderCallDone ==
    /\ call.fn = "structure_to_latex"
    /\ IsStr(ret)

\* What one pass of the sanitizer leaves of ^ and ~, also after re has
\* expanded "\t" in a replacement template
CircumNames ==
    {"textasciicircum", "textasciitilde", "extasciicircum", "extasciitilde"}

\* The texts of a section, as stored
TextsOfSection(section) ==
    IF section = None THEN {}
    ELSE {section.lines[i] : i \in 1..Len(section.lines)}
         \cup UNION {LET item == section.subsections[i]
                     IN  {item[k] : k \in DOMAIN item \ {"bullets"}}
                         \cup {item.bullets[j] : j \in 1..Len(Get(item, "bullets", <<>>))} :
                     i \in 1..Len(section.subsections)}

\* A stored text is unsanitized: no special character of it is escaped
Unsanitized(text) ==
    \A i \in 1..Len(text) :
        /\ text[i] \in SpecialChars \ {"{", "}"} => (i = 1 \/ text[i - 1] # "\\")
        /\ text[i] \notin CircumNames

\* The special characters of out went through the sanitizer once: not zero
\* times (no bare ^ or ~, a backslash before each of & % $ # _) and not twice
\* (no second backslash, and the {} after the name of ^ or ~ is not escaped)
SanitizedOnce(out) ==
    \A i \in 1..Len(out) :
        /\ out[i] \notin {"^", "~"}
        /\ out[i] \in {"&", "%", "$", "#", "_"}
           => /\ i > 1 /\ out[i - 1] = "\\"
              /\ i > 2 => out[i - 2] # "\\"
        /\ out[i] \in CircumNames
           => /\ i + 2 <= Len(out)
              /\ out[i + 1] = "{"
              /\ out[i + 2] = "}"

FallbackLatexDone ==
    /\ call.fn = "structure_to_latex"
    /\ call.original = None
    /\ IsStr(ret)

\* block stands in text, token for token
Occurs(block, text) ==
    \E k \in 1..(Len(text) - Len(block) + 1) :
        SubSeq(text, k, k + Len(block) - 1) = block

\* A macro invocation: one backslash and the macro's name
Macro(name) == <<"\\", name>>
\* One argument of a macro: the sanitized text in braces
Argument(text) == <<"{">> \o escape_latex_characters(text) \o <<"}">>

SectionHeader(name) ==
    CASE name = "education" -> "\\section{Education}"
      [] name = "experience" -> "\\section{Experience}"
      [] name = "projects" -> "\\section{Projects}"
      [] name = "certifications" -> "\\section{Certifications \\& Achievements}"

\* The line of one entry: heading, date, organization, location for
\* education and experience, heading and date for the other two
EntryLine(name, item) ==
    IF name \in {"education", "experience"}
    THEN <<"    ">> \o Macro("resumeSubheading")
         \o Argument(Get(item, "heading", <<>>))
         \o Argument(Get(item, "date", <<>>))
         \o Argument(Get(item, "organization", <<>>))
         \o Argument(Get(item, "location", <<>>))
    ELSE <<"    ">> \o Macro("resumeProjectHeading")
         \o <<"{">> \o Macro("textbf") \o Argument(Get(item, "heading", <<>>)) \o <<"}">>
         \o Argument(Get(item, "date", <<>>))

\* The itemized list of the bullets of an entry that hold text, in stored
\* order; no list when there is none
EntryBullets(item) ==
    LET bullets == SelectSeq(Get(item, "bullets", <<>>), StripTruthy)
    IN  IF bullets = <<>> THEN <<>>
        ELSE <<"\n", "    ">> \o Macro("resumeItemListStart")
             \o Flatten([i \in 1..Len(bullets) |->
                           <<"\n", "      ">> \o Macro("resumeItem")
                           \o Argument(bullets[i])])
             \o <<"\n", "    ">> \o Macro("resumeItemListEnd")

\* The block of a section: its header and its entries in stored order
EntriesBlock(name, subsections) ==
    <<SectionHeader(name), "\n", "  ">> \o Macro("resumeSubHeadingListStart")
    \o Flatten([i \in 1..Len(subsections) |->
                  <<"\n">> \o EntryLine(name, subsections[i])
                  \o EntryBullets(subsections[i])])
    \o <<"\n", "  ">> \o Macro("resumeSubHeadingListEnd")

\* C23: in structure_to_latex(R, None) the subsections of each section are
\* rendered in stored order, an education or experience entry as one
\* invocation of the subheading macro with the arguments heading, date,
\* organization, location, a projects or certifications entry with heading
\* and date only, each followed by the itemized list of its bullets in stored
\* order; the date is always an argument of its own.
C23_FallbackEntryRule ==
    FallbackLatexDone =>
        \A name \in {"education", "experience", "projects", "certifications"} :
            HasSubsections(call.resume, name)
            => Occurs(EntriesBlock(name, call.resume[name].subsections), ret.str)

\* Only the contact and the skills field of the resume are set
OnlyContactAndSkills(resume) ==
    \A name \in SectionNames :
        (resume[name] # None) <=> (name \in {"contact", "skills"})

\* C24: a resume with only contact and skills set is serialized by the
\* fallback template into a document with exactly two section blocks, one
\* for contact and one for skills, and without an Experience, Education,
\* Projects, Certifications or Summary header.
C24_ContactAndSkillsDocument ==
    (FallbackLatexDone /\ OnlyContactAndSkills(call.resume))
    => /\ Count(ret.str, LatexBlockStart("contact")) = 1
       /\ Count(ret.str, LatexBlockStart("skills")) = 1
       /\ \A name \in SectionNames \ {"contact", "skills"} :
              ~Contains(ret.str, LatexBlockStart(name))

(***************************************************************************)
(* Claims about a failing LLM call (SpecLlmFunctions)                      *)
(***************************************************************************)
\* Constructing the model or generate_content raised, and the function is over
LlmCallFailed ==
    /\ call.fn \in {"parse_latex_into_structure", "optimize_content_lines",
                    "apply_ats_feedback"}
    /\ IsRaise(call.llm)
    /\ ret # Pending

\* C25: when constructing the model or the generate_content call raises,
\* parse_latex_into_structure returns None and optimize_content_lines and
\* apply_ats_feedback return their input resume; no exception leaves the
\* function's error handler.
C25_LlmFailuresContained ==
    LlmCallFailed =>
        /\ ~IsRaise(ret)
        /\ call.fn = "parse_latex_into_structure" => ret = None
        /\ call.fn \in Optimizers => ret = call.structured_resume

(***************************************************************************)
(* Claims about what the script stores (Spec)                              *)
(***************************************************************************)
\* The sanitized text stands in the document, as it is or as re's template
\* expansion leaves it
TextReached(text, latex) ==
    \/ Occurs(escape_latex_characters(text), latex)
    \/ /\ ~TemplateRaises(escape_latex_characters(text))
       /\ Occurs(TemplateText(escape_latex_characters(text)), latex)

\* Every text of every section the resume holds stands in the document
ResumeReached(resume, latex) ==
    \A name \in SectionNames :
        \A text \in TextsOfSection(resume[name]) : TextReached(text, latex.str)

\* C26: after Process Resume, and after the ATS improvement, the LaTeX stored
\* for download holds the optimized text of every section the optimized
\* resume has, contact, summary, skills, education and certifications as well
\* as experience and projects, not the original document's text for it.
C26_OptimizedContentReachesOutput ==
    /\ "generated_latex" \in DOMAIN session_state
       => ResumeReached(session_state["structured_resume"],
                        session_state["generated_latex"])
    /\ "improved_latex" \in DOMAIN session_state
       => ResumeReached(session_state["improved_structured_resume"],
                        session_state["improved_latex"])

\* A step in which apply_ats_feedback failed and fell back to its input
ImprovementFailed ==
    /\ pc = "improve"
    /\ pc' = "idle"
    /\ \E i \in 1..Len(reported') : reported'[i].text = "Error applying ATS feedback"

\* The step records no improved version and shows no success message
NothingRecorded ==
    /\ \A k \in {"improved_latex", "improved_structured_resume"} :
           k \in DOMAIN session_state'
           => k \in DOMAIN session_state /\ session_state'[k] = session_state[k]
    /\ \A i \in 1..Len(reported') : reported'[i] # ImprovedMessage

\* C27: session_state gains 'improved_latex' and
\* 'improved_structured_resume', and the success message is shown, only when
\* apply_ats_feedback obtained and accepted an improved structure; when it
\* fails and falls back to its input, no improved version is recorded.
C27_ImprovedOnlyAfterSuccess ==
    [][ImprovementFailed => NothingRecorded]_vars

\* The reports the scoring call of the LLM returns
AtsReports == {o \in AtsOutcomes : IsStr(o)}

\* C28: session_state['ats_analysis'] is set, and the ATS improvement is
\* started with it as feedback, only when the scoring call returned a report
\* of the LLM; when PDF compilation, text extraction or the scoring call
\* fails, no failure message is stored as 'ats_analysis' and the improvement
\* is not offered.
C28_AtsFeedbackIsRealReport ==
    /\ "ats_analysis" \in DOMAIN session_state
       => session_state["ats_analysis"] \in AtsReports
    /\ pc = "improve"
       => /\ "ats_analysis" \in DOMAIN session_state
          /\ session_state["ats_analysis"] \in AtsReports

\* What a Process Resume run stores when it gets as far as the LaTeX
ProcessKeys == {"generated_latex", "structured_resume", "original_latex",
                "job_description"}
ImprovedKeys == {"improved_latex", "improved_structured_resume"}

\* The stored keys go together
KeysConsistent ==
    /\ \A k \in ProcessKeys :
           k \in DOMAIN session_state <=> "generated_latex" \in DOMAIN session_state
    /\ \A k \in ImprovedKeys :
           k \in DOMAIN session_state <=> "improved_latex" \in DOMAIN session_state
    /\ "improved_latex" \in DOMAIN session_state
       => "generated_latex" \in DOMAIN session_state

\* In a Process Resume run the session holds what this run has stored so far
OnlyThisRun ==
    /\ pc \in {"parse", "optimize", "serialize"} => DOMAIN session_state = {}
    /\ pc \in {"compile", "extract", "score"} => DOMAIN session_state = ProcessKeys

\* The step ends a Process Resume run
ProcessRunEnds ==
    /\ pc \in {"parse", "optimize", "serialize", "compile", "extract", "score"}
    /\ pc' = "idle"

\* C29: after any sequence of Process Resume, ATS-improve and download
\* actions, 'generated_latex' is stored if and only if 'structured_resume',
\* 'original_latex' and 'job_description' are, 'improved_latex' if and only
\* if 'improved_structured_resume' is, and only if 'generated_latex' is; and
\* after a Process Resume action with both inputs given nothing stored by an
\* earlier run remains unless the new run produced it again.
C29_SessionStateConsistent ==
    /\ [](KeysConsistent /\ OnlyThisRun)
    /\ [][ProcessRunEnds
          => /\ DOMAIN session_state' \subseteq ProcessKeys \cup {"ats_analysis"}
             /\ "ats_analysis" \in DOMAIN session_state'
                => pc \in {"compile", "extract", "score"}]_vars

\* An improved version is stored next to the generated one and the analysis
C29_Witness ==
    /\ pc = "idle"
    /\ DOMAIN session_state = ProcessKeys \cup ImprovedKeys \cup {"ats_analysis"}

(***************************************************************************)
(* Claims about the two paths of preserve mode (SpecPreserve)              *)
(***************************************************************************)
\* The heading marker of the section is found in the original document, and
\* the in-place replacement has put a body behind it
ReplacedInPlace(title) ==
    /\ PreserveCallDone
    /\ Updated(call.resume, title)
    /\ PatternSearch(call.original.str, title) # <<0, 0>>

\* C30: for every resume section and every original document, the body
\* inserted when the section's heading marker is found in the original
\* (in-place replacement) is character for character the body inserted when
\* the marker is not found (append before the closing marker): macro names
\* and escaped characters carry the same number of backslashes on both
\* paths.
C30_SameBodyOnBothPaths ==
    \A title \in CoveredTitles :
        ReplacedInPlace(title)
        => Occurs(<<"\n">> \o AppendedBody(call.resume, title), ret.str)

====
